---- MODULE Spec2Model ----
(***************************************************************************)
(* Saving and loading models: the notebook's cells as a state machine.     *)
(*                                                                         *)
(* A Jupyter kernel holds the global names `model` and `state_dict` and    *)
(* the file 'checkpoint.pth'.  Each code cell is an operation on them.     *)
(* load_checkpoint is run one statement (and, inside load_state_dict, one  *)
(* parameter) at a time; every other cell is one step.  A tensor is its    *)
(* shape and one number standing for its contents.                         *)
(*                                                                         *)
(* Spec is the notebook in one kernel.  SpecCorrupt adds the loss of the    *)
(* file's tail, SpecForeign a network changed by hand before it is saved,   *)
(* and SpecIO runs the save cell and load_checkpoint in two kernels, one    *)
(* file operation at a time.                                                *)
(*                                                                         *)
(* SpecAutograd and SpecTrain are the notebook "Training Neural Networks"   *)
(* in a kernel of its own: its cells run from top to bottom and any of them *)
(* may be left out.  SpecAutograd is the part up to the first backward pass *)
(* through the network (cells 2 to 13); SpecTrain is the part that trains   *)
(* and uses the network (cells 2, 5 and 12 to 21), with the training loop   *)
(* and the inference cell run one statement at a time.  SpecTrainFair is    *)
(* SpecTrain with a running cell that keeps running.                        *)
(***************************************************************************)
EXTENDS Integers, Sequences, FiniteSets, TLC

VARIABLES
    model,       \* the global `model`: <<>> while unbound, else <<network>>
    state_dict,  \* the global `state_dict` of cell 8: <<>> or <<ordered dict>>
    file,        \* 'checkpoint.pth': [exists, bytes, written], bytes a sequence of zip
                 \* records, written (history) the number of records torch.save wrote
    call,        \* the load_state_dict / load_checkpoint call in progress
    raised,      \* the exception the last finished cell ended with: <<>> or <<exc>>
    saved,       \* history: the network cell 11 saved into the present file
    trained,     \* history: the network as cell 5 left it, in an in-order run
    cell,        \* history: last cell of the notebook's in-order run, -1 once out of order
    rng,         \* the random number generator: the number of draws made so far
    proc,        \* the save cell and load_checkpoint file operation by file
                 \* operation, in each of two kernels that share the directory
    completed,   \* history: the objects whose torch.save has run to its end
    last_writer, \* history: the kernel that wrote to the file last, or "none"
    racy,        \* history: a save has overlapped another use of the file
    \* the kernel of the training notebook; it has a `model` (a <<network>>
    \* with its gradients), `raised`, `rng` and `cell` (the last cell run) too
    trainloader, \* <<>> before cell 1, else <<[len]>>: the number of batches of a pass
    optim,       \* `from torch import optim` (cell 14) has run
    optimizer,   \* <<>> or <<[lr]>>, over the parameters of `model`
    images,      \* <<>> or <<batch>>: the batch `images, labels` are bound to
    logits,      \* `logits`: <<>> or <<[batch, requires_grad]>>
    out,         \* `out`, the forward result in the training loop
    loss,        \* `loss`: <<>> or <<[item, batch, requires_grad]>>
    grad_enabled,\* torch's gradient mode
    no_grad,     \* the torch.no_grad() object of the with statement: <<>> or <<[prev]>>
    pc,          \* "idle", or the statement the running cell is at
    e,           \* `e` of the training loop, -1 before its first pass
    it,          \* the iterator of the inner for: the batches not yet drawn
    running_loss,\* `running_loss`
    stdout,      \* what the cell run last has printed
    since_zero,  \* history: backward passes since the optimizer's latest zero_grad,
                 \* -1 while it has made none
    steps,       \* history: optimizer steps of the training loop cell
    losses,      \* history: loss.item() of the batches of the present epoch
    reached,     \* history: the backward passes that have reached the parameters
                 \* of `model` since it was built
    x,           \* `x` of cell 6: <<>> or <<[tensor, grad]>>, grad <<>> while None
    y,           \* `y = x**2`: <<>> or <<tensor>>
    z            \* `z = y.mean()`: <<>> or <<tensor>>

training == <<trainloader, optim, optimizer, images, logits, out, loss, grad_enabled,
              no_grad, pc, e, it, running_loss, stdout, since_zero, steps, losses,
              reached, x, y, z>>

vars == <<model, state_dict, file, call, raised, saved, trained, cell, rng,
          proc, completed, last_writer, racy, training>>

----------------------------------------------------------------------------
(* Bounds of the model *)

\* random draws (initialisations and training runs) in one kernel session
MaxDraws == 4

----------------------------------------------------------------------------
(* Program constants *)

\* 'input_size': 784 and 'output_size': 10 as the save cell writes them
CheckpointInputSize == 784
CheckpointOutputSize == 10
\* Dropout(p=0.5) of a network built without a dropout argument, in percent
DefaultDropP == 50

\* the architecture of cell 4 and the one of cell 10
TrainedArch == [input_size |-> 784, output_size |-> 10, hidden_layers |-> <<512, 256, 128>>]
MismatchArch == [input_size |-> 784, output_size |-> 10, hidden_layers |-> <<400, 200, 100>>]

\* the networks cell 4 builds: the notebook's; one of the checkpoint's input
\* and output size with fewer layers and another dropout rate; one whose
\* input and output size are not the ones the save cell writes
Builds ==
    { [arch |-> TrainedArch, drop_p |-> DefaultDropP],
      [arch |-> [input_size |-> 784, output_size |-> 10, hidden_layers |-> <<16>>],
       drop_p |-> 20],
      [arch |-> [input_size |-> 20, output_size |-> 5, hidden_layers |-> <<16>>],
       drop_p |-> DefaultDropP] }

----------------------------------------------------------------------------
(* Python dictionaries: a sequence of <<key, value>> pairs in insertion order *)

Has(d, k) == \E i \in DOMAIN d : d[i][1] = k

Get(d, k) == d[CHOOSE i \in DOMAIN d : d[i][1] = k][2]

Keys(d) == [i \in DOMAIN d |-> d[i][1]]

KeySet(d) == {d[i][1] : i \in DOMAIN d}

\* d[k] = v for a key d already holds: the value changes, the position stays
Put(d, k, v) == [i \in DOMAIN d |-> IF d[i][1] = k THEN <<k, v>> ELSE d[i]]

----------------------------------------------------------------------------
(* fc_model.Network *)

Tensor(shape, seed) == [shape |-> shape, data |-> seed]

\* nn.Linear(n_in, n_out): weight of shape (n_out, n_in), bias of shape (n_out)
Linear(n_in, n_out) == [in_features |-> n_in, out_features |-> n_out]

\* mutant: the weight is laid out (in_features, out_features)
LinearParams_Transposed(prefix, lin, seed) ==
    << <<prefix \o ".weight", Tensor(<<lin.in_features, lin.out_features>>, seed)>>,
       <<prefix \o ".bias", Tensor(<<lin.out_features>>, seed)>> >>

LinearParams(prefix, lin, seed) ==
    << <<prefix \o ".weight", Tensor(<<lin.out_features, lin.in_features>>, seed)>>,
       <<prefix \o ".bias", Tensor(<<lin.out_features>>, seed)>> >>

RECURSIVE HiddenParams(_, _, _)
HiddenParams(layers, n, seed) ==
    IF n = 0 THEN <<>>
    ELSE HiddenParams(layers, n - 1, seed)
         \o LinearParams("hidden_layers." \o ToString(n - 1), layers[n], seed)

\* Network(input_size, output_size, hidden_layers, drop_p), its parameters
\* initialised with the values of random draw number `seed`; the parameters
\* of a new module track gradients
Network(input_size, output_size, hidden, drop_p, seed) ==
    LET layers == [i \in 1..Len(hidden) |->
                     Linear(IF i = 1 THEN input_size ELSE hidden[i - 1], hidden[i])]
        output == Linear(hidden[Len(hidden)], output_size)
    IN  [hidden_layers |-> layers,
         output |-> output,
         dropout |-> drop_p,
         requires_grad |-> TRUE,
         params |-> HiddenParams(layers, Len(layers), seed)
                    \o LinearParams("output", output, seed)]

\* model.state_dict(): the parameters by name, in registration order
StateDict(m) == m.params

\* [each.out_features for each in model.hidden_layers]
HiddenSizes(m) == [i \in DOMAIN m.hidden_layers |-> m.hidden_layers[i].out_features]

InputSize(m) == m.hidden_layers[1].in_features

OutputSize(m) == m.output.out_features

\* fc_model.train: every parameter gets a new value, those of draw `seed`
TrainParams(m, seed) ==
    [m EXCEPT !.params = [i \in DOMAIN m.params |->
        <<m.params[i][1], Tensor(m.params[i][2].shape, seed)>>]]

----------------------------------------------------------------------------
(* torch.save / torch.load: a zip archive of data.pkl (the pickled object,   *)
(* each tensor replaced by its shape and the number of its storage), one     *)
(* record data/<n> per storage, the version record, and the central          *)
(* directory, written last.                                                  *)

IsCheckpointDict(obj) == Has(obj, "state_dict")

TensorsOf(obj) == IF IsCheckpointDict(obj) THEN Get(obj, "state_dict") ELSE obj

\* mutant: the entries are pickled sorted by name within a layer, bias
\* before weight
PickleTensors_Sorted(sd) ==
    [i \in DOMAIN sd |->
        LET j == IF i % 2 = 1 THEN i + 1 ELSE i - 1
        IN  <<sd[j][1], [shape |-> sd[j][2].shape, storage |-> j - 1]>>]

PickleTensors(sd) ==
    [i \in DOMAIN sd |-> <<sd[i][1], [shape |-> sd[i][2].shape, storage |-> i - 1]>>]

Pickle(obj) ==
    IF IsCheckpointDict(obj)
    THEN Put(obj, "state_dict", PickleTensors(Get(obj, "state_dict")))
    ELSE PickleTensors(obj)

TorchSave(obj) ==
    LET sd == TensorsOf(obj)
    IN  <<[name |-> "data.pkl", body |-> Pickle(obj)]>>
        \o [i \in DOMAIN sd |-> [name |-> "data/" \o ToString(i - 1), body |-> sd[i][2].data]]
        \o <<[name |-> "version", body |-> "3"]>>
        \o <<[name |-> "central_directory", body |-> Len(sd) + 2]>>

\* the archive opens only if its central directory is there and lists every record
ZipReadable(bytes) ==
    /\ Len(bytes) > 0
    /\ bytes[Len(bytes)].name = "central_directory"
    /\ bytes[Len(bytes)].body = Len(bytes) - 1

UnpickleTensors(psd, bytes) ==
    [i \in DOMAIN psd |->
        <<psd[i][1], Tensor(psd[i][2].shape, bytes[psd[i][2].storage + 2].body)>>]

Unpickle(bytes) ==
    LET p == bytes[1].body
    IN  IF Has(p, "state_dict")
        THEN Put(p, "state_dict", UnpickleTensors(Get(p, "state_dict"), bytes))
        ELSE UnpickleTensors(p, bytes)

\* the file after torch.save(obj, 'checkpoint.pth')
Written(obj) ==
    [exists |-> TRUE, bytes |-> TorchSave(obj), written |-> Len(TorchSave(obj))]

\* mutant: an archive without its central directory is read as far as it
\* goes, and a storage that is not there is read as zeros
TorchLoad_Lenient(f) ==
    LET Zeros(psd) ==
            [i \in DOMAIN psd |->
                <<psd[i][1],
                  Tensor(psd[i][2].shape,
                         IF psd[i][2].storage + 2 <= Len(f.bytes)
                            /\ f.bytes[psd[i][2].storage + 2].name \notin {"version", "central_directory"}
                         THEN f.bytes[psd[i][2].storage + 2].body ELSE 0)>>]
        p == f.bytes[1].body
    IN  IF ~f.exists THEN <<"FileNotFoundError">>
        ELSE IF Len(f.bytes) = 0 THEN <<"RuntimeError">>
        ELSE IF Has(p, "state_dict")
        THEN <<"ok", Put(p, "state_dict", Zeros(Get(p, "state_dict")))>>
        ELSE <<"ok", Zeros(p)>>

\* torch.load(f): <<"ok", object>> or <<exception type>>
TorchLoad(f) ==
    IF ~f.exists THEN <<"FileNotFoundError">>
    ELSE IF ~ZipReadable(f.bytes) THEN <<"RuntimeError">>
    ELSE <<"ok", Unpickle(f.bytes)>>

----------------------------------------------------------------------------
(* The kernel *)

NoCall ==
    [kind |-> "none", pc |-> "idle", checkpoint |-> <<>>, net |-> <<>>, sd |-> <<>>,
     i |-> 0, error_msgs |-> <<>>, missing_keys |-> <<>>, before |-> <<>>]

\* no call is in progress: a cell can be run
Ready == call.pc \in {"idle", "ASSIGNED", "ERROR"}

Exception(type, msgs) == <<[type |-> type, error_msgs |-> msgs]>>

\* the cell that precedes cell n when the notebook is run top to bottom
\* (cells 6 and 12 print and define, and change nothing)
Previous(n) ==
    CASE n = 4 -> 0 [] n = 5 -> 4 [] n = 7 -> 5 [] n = 8 -> 7
      [] n = 9 -> 8 [] n = 10 -> 9 [] n = 11 -> 10 [] n = 13 -> 11

\* the in-order run after cell n has been run
Track(n) == IF cell = Previous(n) THEN n ELSE -1

\* the kernels that share the working directory
Procs == {"k1", "k2"}

\* a kernel that has run no cell that saves or loads
NoOp ==
    [pc |-> "idle", op |-> "none", ops |-> 0, model |-> <<>>, handle |-> FALSE,
     todo |-> <<>>, pos |-> 0, before |-> <<>>, dir |-> <<>>,
     got |-> <<>>, obj |-> <<>>, result |-> <<>>, raised |-> <<>>]

\* the training notebook's kernel with the data loader `loader` and no
\* other name bound
FreshTraining(loader) ==
    /\ trainloader = loader
    /\ optim = FALSE
    /\ optimizer = <<>>
    /\ images = <<>>
    /\ logits = <<>>
    /\ out = <<>>
    /\ loss = <<>>
    /\ grad_enabled = TRUE
    /\ no_grad = <<>>
    /\ pc = "idle"
    /\ e = -1
    /\ it = {}
    /\ running_loss = 0
    /\ stdout = <<>>
    /\ since_zero = -1
    /\ steps = 0
    /\ losses = <<>>
    /\ reached = 0
    /\ x = <<>>
    /\ y = <<>>
    /\ z = <<>>

Init ==
    /\ model = <<>>
    /\ state_dict = <<>>
    /\ file = [exists |-> FALSE, bytes |-> <<>>, written |-> 0]
    /\ call = NoCall
    /\ raised = <<>>
    /\ saved = <<>>
    /\ trained = <<>>
    /\ cell = 0
    /\ rng = 0
    /\ proc = [p \in Procs |-> NoOp]
    /\ completed = {}
    /\ last_writer = "none"
    /\ racy = FALSE
    /\ FreshTraining(<<>>)

\* cell 4: model = fc_model.Network(784, 10, [512, 256, 128]); the sizes and
\* the dropout rate are the inputs of the cell
Cell4(arch, drop_p) ==
    /\ Ready
    /\ rng < MaxDraws
    /\ model' = <<Network(arch.input_size, arch.output_size, arch.hidden_layers,
                          drop_p, rng)>>
    /\ rng' = rng + 1
    /\ call' = NoCall
    /\ raised' = <<>>
    /\ cell' = IF arch = TrainedArch /\ drop_p = DefaultDropP THEN Track(4) ELSE -1
    /\ trained' = <<>>
    /\ UNCHANGED <<training, proc, completed, last_writer, racy, state_dict, file, saved>>

\* cell 5: fc_model.train(model, trainloader, testloader, criterion, optimizer, epochs=2)
Cell5 ==
    /\ Ready
    /\ model # <<>>
    /\ rng < MaxDraws
    /\ model' = <<TrainParams(model[1], rng)>>
    /\ rng' = rng + 1
    /\ call' = NoCall
    /\ raised' = <<>>
    /\ cell' = Track(5)
    /\ trained' = IF cell' = 5 THEN model' ELSE <<>>
    /\ UNCHANGED <<training, proc, completed, last_writer, racy, state_dict, file, saved>>

\* cell 7: torch.save(model.state_dict(), 'checkpoint.pth')
Cell7 ==
    /\ Ready
    /\ model # <<>>
    /\ file' = Written(StateDict(model[1]))
    /\ saved' = <<>>
    /\ call' = NoCall
    /\ raised' = <<>>
    /\ cell' = Track(7)
    /\ trained' = IF cell' = 7 THEN trained ELSE <<>>
    /\ UNCHANGED <<training, proc, completed, last_writer, racy, model, state_dict, rng>>

\* cell 8: state_dict = torch.load('checkpoint.pth')
Cell8 ==
    /\ Ready
    /\ LET r == TorchLoad(file)
       IN  IF r[1] = "ok"
           THEN /\ state_dict' = <<r[2]>>
                /\ raised' = <<>>
                /\ cell' = Track(8)
           ELSE /\ state_dict' = state_dict
                /\ raised' = Exception(r[1], <<>>)
                /\ cell' = Track(8)
    /\ call' = NoCall
    /\ trained' = IF cell' = 8 THEN trained ELSE <<>>
    /\ UNCHANGED <<training, proc, completed, last_writer, racy, model, file, saved, rng>>

----------------------------------------------------------------------------
(* Module.load_state_dict(state_dict), strict *)

SizeMismatch(key, input_param, param) ==
    [what |-> "size mismatch", key |-> key,
     checkpoint_shape |-> input_param.shape, model_shape |-> param.shape]

\* mutant: a parameter of the right shape is checked and never copied
LoadFromStateDict_NoCopy(c, params) ==
    LET key == params[c.i][1]
        param == params[c.i][2]
    IN  IF ~Has(c.sd, key)
        THEN [call |-> [c EXCEPT !.i = c.i + 1,
                                 !.missing_keys = Append(c.missing_keys, key)],
              params |-> params]
        ELSE IF Get(c.sd, key).shape # param.shape
        THEN [call |-> [c EXCEPT !.i = c.i + 1,
                                 !.error_msgs = Append(c.error_msgs,
                                     SizeMismatch(key, Get(c.sd, key), param))],
              params |-> params]
        ELSE [call |-> [c EXCEPT !.i = c.i + 1], params |-> params]

\* mutant: only the first size mismatch is reported
LoadFromStateDict_FirstOnly(c, params) ==
    LET key == params[c.i][1]
        param == params[c.i][2]
    IN  IF ~Has(c.sd, key)
        THEN [call |-> [c EXCEPT !.i = c.i + 1,
                                 !.missing_keys = Append(c.missing_keys, key)],
              params |-> params]
        ELSE IF Get(c.sd, key).shape # param.shape
        THEN [call |-> [c EXCEPT !.i = c.i + 1,
                                 !.error_msgs = IF c.error_msgs = <<>>
                                                THEN <<SizeMismatch(key, Get(c.sd, key), param)>>
                                                ELSE c.error_msgs],
              params |-> params]
        ELSE [call |-> [c EXCEPT !.i = c.i + 1],
              params |-> Put(params, key, Get(c.sd, key))]

\* mutant: a tensor of another shape is reported and assigned all the same
LoadFromStateDict_AssignAny(c, params) ==
    LET key == params[c.i][1]
        param == params[c.i][2]
    IN  IF ~Has(c.sd, key)
        THEN [call |-> [c EXCEPT !.i = c.i + 1,
                                 !.missing_keys = Append(c.missing_keys, key)],
              params |-> params]
        ELSE IF Get(c.sd, key).shape # param.shape
        THEN [call |-> [c EXCEPT !.i = c.i + 1,
                                 !.error_msgs = Append(c.error_msgs,
                                     SizeMismatch(key, Get(c.sd, key), param))],
              params |-> Put(params, key, Get(c.sd, key))]
        ELSE [call |-> [c EXCEPT !.i = c.i + 1],
              params |-> Put(params, key, Get(c.sd, key))]

\* mutant: a tensor of another shape is passed over without a message
LoadFromStateDict_SkipMismatch(c, params) ==
    LET key == params[c.i][1]
        param == params[c.i][2]
    IN  IF ~Has(c.sd, key)
        THEN [call |-> [c EXCEPT !.i = c.i + 1,
                                 !.missing_keys = Append(c.missing_keys, key)],
              params |-> params]
        ELSE IF Get(c.sd, key).shape # param.shape
        THEN [call |-> [c EXCEPT !.i = c.i + 1], params |-> params]
        ELSE [call |-> [c EXCEPT !.i = c.i + 1],
              params |-> Put(params, key, Get(c.sd, key))]

\* one parameter of the module against the entry of the same name: the names
\* that are missing and the shapes that differ are collected, a parameter of
\* the right shape is copied in place at once
LoadFromStateDict(c, params) ==
    LET key == params[c.i][1]
        param == params[c.i][2]
    IN  IF ~Has(c.sd, key)
        THEN [call |-> [c EXCEPT !.i = c.i + 1,
                                 !.missing_keys = Append(c.missing_keys, key)],
              params |-> params]
        ELSE IF Get(c.sd, key).shape # param.shape
        THEN [call |-> [c EXCEPT !.i = c.i + 1,
                                 !.error_msgs = Append(c.error_msgs,
                                     SizeMismatch(key, Get(c.sd, key), param))],
              params |-> params]
        ELSE [call |-> [c EXCEPT !.i = c.i + 1],
              params |-> Put(params, key, Get(c.sd, key))]

\* mutant: strict=False, missing and unexpected keys are not errors
ErrorMsgs_NonStrict(c, params) == c.error_msgs

\* the messages load_state_dict ends with: the missing keys first, then the
\* unexpected ones, then the size mismatches in the module's order
ErrorMsgs(c, params) ==
    LET Unexpected(k) == ~Has(params, k)
        unexpected_keys == SelectSeq(Keys(c.sd), Unexpected)
    IN  (IF c.missing_keys # <<>>
         THEN <<[what |-> "Missing key(s) in state_dict", keys |-> c.missing_keys]>>
         ELSE <<>>)
        \o (IF unexpected_keys # <<>>
            THEN <<[what |-> "Unexpected key(s) in state_dict", keys |-> unexpected_keys]>>
            ELSE <<>>)
        \o c.error_msgs

\* the in-order run while cell n is running
Begin(n) == IF cell = Previous(n) THEN cell ELSE -1

StartLoadStateDict(kind, sd, params) ==
    [NoCall EXCEPT !.kind = kind, !.pc = "LOADING", !.sd = sd, !.i = 1,
                   !.before = params]

\* the loop over the module's parameters, from parameter c.i to the last
RECURSIVE LoadRest(_, _)
LoadRest(c, params) ==
    IF c.i > Len(params) THEN [call |-> c, params |-> params]
    ELSE LET r == LoadFromStateDict(c, params)
         IN  LoadRest(r.call, r.params)

\* m.load_state_dict(sd) in a cell, m the global `model`: the loop, then
\* raise RuntimeError if there is any message
LoadStateDict(kind, m, sd) ==
    LET r == LoadRest(StartLoadStateDict(kind, sd, m.params), m.params)
        msgs == ErrorMsgs(r.call, r.params)
    IN  /\ model' = <<[m EXCEPT !.params = r.params]>>
        /\ IF msgs # <<>>
           THEN /\ call' = [r.call EXCEPT !.pc = "ERROR", !.error_msgs = msgs]
                /\ raised' = Exception("RuntimeError", msgs)
           ELSE /\ call' = [r.call EXCEPT !.pc = "ASSIGNED"]
                /\ raised' = <<>>

\* cell 9: model.load_state_dict(state_dict)
Cell9 ==
    /\ Ready
    /\ model # <<>>
    /\ state_dict # <<>>
    /\ LoadStateDict("cell9", model[1], state_dict[1])
    /\ cell' = Track(9)
    /\ trained' = IF cell' = -1 THEN <<>> ELSE trained
    /\ UNCHANGED <<training, proc, completed, last_writer, racy, state_dict, file, saved, rng>>

\* cell 10: model = fc_model.Network(784, 10, [400, 200, 100])
\*          model.load_state_dict(state_dict)
Cell10 ==
    /\ Ready
    /\ rng < MaxDraws
    /\ rng' = rng + 1
    /\ LET m == Network(MismatchArch.input_size, MismatchArch.output_size,
                        MismatchArch.hidden_layers, DefaultDropP, rng)
       IN  IF state_dict = <<>>
           THEN /\ model' = <<m>>
                /\ call' = NoCall
                /\ raised' = Exception("NameError", <<>>)
                /\ cell' = Track(10)
           ELSE /\ LoadStateDict("cell10", m, state_dict[1])
                /\ cell' = Track(10)
    /\ trained' = IF cell' = -1 THEN <<>> ELSE trained
    /\ UNCHANGED <<training, proc, completed, last_writer, racy, state_dict, file, saved>>

\* mutant: load_checkpoint has no network of its own, its load_state_dict
\* copies into the global `model` as well
LoadParam_Global ==
    /\ call.pc = "LOADING"
    /\ call.i <= Len(call.net[1].params)
    /\ LET r == LoadFromStateDict(call, call.net[1].params)
       IN  /\ call' = [r.call EXCEPT !.net = <<[call.net[1] EXCEPT !.params = r.params]>>]
           /\ model' = <<[call.net[1] EXCEPT !.params = r.params]>>
    /\ UNCHANGED <<training, proc, completed, last_writer, racy, state_dict, file, raised, saved, trained, cell, rng>>

\* load_checkpoint's load_state_dict, the next parameter of its network
LoadParam ==
    /\ call.pc = "LOADING"
    /\ call.i <= Len(call.net[1].params)
    /\ LET r == LoadFromStateDict(call, call.net[1].params)
       IN  call' = [r.call EXCEPT !.net = <<[call.net[1] EXCEPT !.params = r.params]>>]
    /\ UNCHANGED <<training, proc, completed, last_writer, racy, model, state_dict, file, raised, saved, trained, cell, rng>>

\* load_checkpoint's load_state_dict, after the last parameter: raise
\* RuntimeError if there is any message, else load_checkpoint returns its
\* network, which cell 13 binds to `model`
LoadFinish ==
    /\ call.pc = "LOADING"
    /\ call.i > Len(call.net[1].params)
    /\ LET msgs == ErrorMsgs(call, call.net[1].params)
       IN  IF msgs # <<>>
           THEN /\ call' = [call EXCEPT !.pc = "ERROR", !.error_msgs = msgs]
                /\ raised' = Exception("RuntimeError", msgs)
                /\ model' = model
           ELSE /\ call' = [call EXCEPT !.pc = "ASSIGNED"]
                /\ raised' = <<>>
                /\ model' = call.net
    /\ cell' = Track(13)
    /\ trained' = IF cell' = -1 THEN <<>> ELSE trained
    /\ UNCHANGED <<training, proc, completed, last_writer, racy, state_dict, file, saved, rng>>

----------------------------------------------------------------------------
(* Saving and loading a checkpoint *)

\* cell 11: checkpoint = {'input_size': 784, 'output_size': 10,
\*                        'hidden_layers': [...], 'state_dict': model.state_dict()}
Checkpoint(m) ==
    << <<"input_size", CheckpointInputSize>>,
       <<"output_size", CheckpointOutputSize>>,
       <<"hidden_layers", HiddenSizes(m)>>,
       <<"state_dict", StateDict(m)>> >>

\* mutant: the save cell detaches the parameters it saves from the graph
Cell11_Detach ==
    /\ Ready
    /\ model # <<>>
    /\ file' = Written(Checkpoint(model[1]))
    /\ model' = <<[model[1] EXCEPT !.requires_grad = FALSE]>>
    /\ saved' = model'
    /\ call' = NoCall
    /\ raised' = <<>>
    /\ cell' = Track(11)
    /\ trained' = IF cell' = -1 THEN <<>> ELSE trained
    /\ UNCHANGED <<training, proc, completed, last_writer, racy, state_dict, rng>>

\* each.out_features: only a layer that has the attribute can be read
HasOutFeatures(layer) == "out_features" \in DOMAIN layer

\* mutant: an element of hidden_layers without out_features is skipped
\* (getattr with a default) and the checkpoint is written
Cell11_SkipUnknown ==
    /\ Ready
    /\ model # <<>>
    /\ LET known == [model[1] EXCEPT
                        !.hidden_layers = SelectSeq(model[1].hidden_layers, HasOutFeatures)]
       IN  file' = Written(Checkpoint(known))
    /\ saved' = model
    /\ call' = NoCall
    /\ raised' = <<>>
    /\ cell' = Track(11)
    /\ trained' = IF cell' = -1 THEN <<>> ELSE trained
    /\ UNCHANGED <<training, proc, completed, last_writer, racy, model, state_dict, rng>>

\* cell 11, then torch.save(checkpoint, 'checkpoint.pth'); the list
\* comprehension raises AttributeError on an element of hidden_layers that
\* has no out_features, before anything is saved
Cell11 ==
    /\ Ready
    /\ model # <<>>
    /\ IF \A i \in DOMAIN model[1].hidden_layers : HasOutFeatures(model[1].hidden_layers[i])
       THEN /\ file' = Written(Checkpoint(model[1]))
            /\ saved' = model
            /\ raised' = <<>>
       ELSE /\ file' = file
            /\ saved' = saved
            /\ raised' = Exception("AttributeError", <<>>)
    /\ call' = NoCall
    /\ cell' = Track(11)
    /\ trained' = IF cell' = -1 THEN <<>> ELSE trained
    /\ UNCHANGED <<training, proc, completed, last_writer, racy, model, state_dict, rng>>

\* cell 13: model = load_checkpoint('checkpoint.pth'), entering the function
Cell13 ==
    /\ Ready
    /\ call' = [NoCall EXCEPT !.kind = "load_checkpoint", !.pc = "START"]
    /\ raised' = <<>>
    /\ cell' = Begin(13)
    /\ trained' = IF cell' = -1 THEN <<>> ELSE trained
    /\ UNCHANGED <<training, proc, completed, last_writer, racy, model, state_dict, file, saved, rng>>

\* load_checkpoint ends with an exception: nothing is returned, `model` stays
Raise(type) ==
    /\ call' = [call EXCEPT !.pc = "ERROR"]
    /\ raised' = Exception(type, <<>>)
    /\ cell' = Track(13)
    /\ trained' = IF cell' = -1 THEN <<>> ELSE trained
    /\ UNCHANGED <<training, proc, completed, last_writer, racy, model, state_dict, file, saved, rng>>

\* checkpoint = torch.load(filepath)
Deserialize ==
    /\ call.pc = "START"
    /\ LET r == TorchLoad(file)
       IN  IF r[1] = "ok"
           THEN /\ call' = [call EXCEPT !.pc = "DESERIALIZED", !.checkpoint = <<r[2]>>]
                /\ UNCHANGED <<training, proc, completed, last_writer, racy, model, state_dict, file, raised, saved, trained, cell, rng>>
           ELSE Raise(r[1])

\* the descriptor fields load_checkpoint reads before it calls fc_model.Network
DescriptorFields == <<"input_size", "output_size", "hidden_layers">>

\* mutant: a field the checkpoint lacks is given a default (dict.get)
BuildNetwork_Defaults ==
    /\ call.pc = "DESERIALIZED"
    /\ rng < MaxDraws
    /\ LET checkpoint == call.checkpoint[1]
           Field(k, default) == IF Has(checkpoint, k) THEN Get(checkpoint, k) ELSE default
       IN  call' = [call EXCEPT
                       !.pc = "FACTORY_BUILT",
                       !.net = <<Network(Field("input_size", CheckpointInputSize),
                                         Field("output_size", CheckpointOutputSize),
                                         Field("hidden_layers", TrainedArch.hidden_layers),
                                         DefaultDropP, rng)>>]
    /\ rng' = rng + 1
    /\ UNCHANGED <<training, proc, completed, last_writer, racy, model, state_dict, file, raised, saved, trained, cell>>

\* model = fc_model.Network(checkpoint['input_size'], checkpoint['output_size'],
\*                          checkpoint['hidden_layers'])
BuildNetwork ==
    /\ call.pc = "DESERIALIZED"
    /\ LET checkpoint == call.checkpoint[1]
       IN  IF \E i \in DOMAIN DescriptorFields : ~Has(checkpoint, DescriptorFields[i])
           THEN Raise("KeyError")
           ELSE /\ rng < MaxDraws
                /\ call' = [call EXCEPT
                       !.pc = "FACTORY_BUILT",
                       !.net = <<Network(Get(checkpoint, "input_size"),
                                         Get(checkpoint, "output_size"),
                                         Get(checkpoint, "hidden_layers"),
                                         DefaultDropP, rng)>>]
                /\ rng' = rng + 1
                /\ UNCHANGED <<training, proc, completed, last_writer, racy, model, state_dict, file, raised, saved, trained, cell>>

\* model.load_state_dict(checkpoint['state_dict']), entering it
LoadCheckpointStateDict ==
    /\ call.pc = "FACTORY_BUILT"
    /\ LET checkpoint == call.checkpoint[1]
       IN  IF ~Has(checkpoint, "state_dict")
           THEN Raise("KeyError")
           ELSE /\ call' = [call EXCEPT !.pc = "LOADING",
                                        !.sd = Get(checkpoint, "state_dict"),
                                        !.i = 1,
                                        !.before = call.net[1].params]
                /\ UNCHANGED <<training, proc, completed, last_writer, racy, model, state_dict, file, raised, saved, trained, cell, rng>>

----------------------------------------------------------------------------

Next ==
    \/ \E b \in Builds : Cell4(b.arch, b.drop_p)
    \/ Cell5
    \/ Cell7
    \/ Cell8
    \/ Cell9
    \/ Cell10
    \/ LoadParam
    \/ LoadFinish
    \/ Cell11
    \/ Cell13
    \/ Deserialize
    \/ BuildNetwork
    \/ LoadCheckpointStateDict

Spec == Init /\ [][Next]_vars

----------------------------------------------------------------------------
(* A damaged artifact: networks are built, trained, saved and loaded, and    *)
(* between two cells the file loses its tail                                *)

Truncate(n) ==
    /\ Ready
    /\ file.exists
    /\ n < Len(file.bytes)
    /\ file' = [file EXCEPT !.bytes = SubSeq(file.bytes, 1, n)]
    /\ call' = NoCall
    /\ cell' = -1
    /\ trained' = <<>>
    /\ UNCHANGED <<training, proc, completed, last_writer, racy, model, state_dict, raised, saved, rng>>

\* the longest artifact: data.pkl, one record for each of the eight
\* parameters of a network of three hidden layers, version, central directory
MaxRecords == 11

NextCorrupt ==
    \/ \E b \in Builds : Cell4(b.arch, b.drop_p)
    \/ Cell5
    \/ Cell7
    \/ Cell11
    \/ \E n \in 0..(MaxRecords - 1) : Truncate(n)
    \/ Cell13
    \/ Deserialize
    \/ BuildNetwork
    \/ LoadCheckpointStateDict
    \/ LoadParam
    \/ LoadFinish

SpecCorrupt == Init /\ [][NextCorrupt]_vars

----------------------------------------------------------------------------
(* A network changed by hand: a module without out_features, such as an     *)
(* activation, appended to model.hidden_layers before the save cells run    *)

AppendLayer ==
    /\ Ready
    /\ model # <<>>
    /\ \A i \in DOMAIN model[1].hidden_layers : HasOutFeatures(model[1].hidden_layers[i])
    /\ model' = <<[model[1] EXCEPT !.hidden_layers = Append(@, [kind |-> "ReLU"])]>>
    /\ call' = NoCall
    /\ raised' = <<>>
    /\ cell' = -1
    /\ trained' = <<>>
    /\ UNCHANGED <<training, proc, completed, last_writer, racy, state_dict, file, saved, rng>>

NextForeign ==
    \/ \E b \in Builds : Cell4(b.arch, b.drop_p)
    \/ Cell5
    \/ AppendLayer
    \/ Cell7
    \/ Cell11

SpecForeign == Init /\ [][NextForeign]_vars

----------------------------------------------------------------------------
(* The save cell and load_checkpoint file operation by file operation.      *)
(* torch.save opens the destination for writing, which empties it, writes   *)
(* the records of the archive one after another at its own position and     *)
(* closes; torch.load opens the source, reads the central directory at its  *)
(* end, then data.pkl and the storage records, and closes.  Both hold the   *)
(* file in a `with` block.  Two kernels run these cells in one directory.   *)

\* save and load cells the kernels run, all in all
MaxOps == 2

\* the cells that save or load started so far
OpsStarted == proc["k1"].ops + proc["k2"].ops

\* kernel p can start a cell that saves or loads: both kernels have built
\* their networks, and of two runs that differ only in which kernel is which,
\* the one where "k1" is ahead is taken
CanStart(p) ==
    /\ proc[p].pc \in {"idle", "saved", "loaded", "error"}
    /\ OpsStarted < MaxOps
    /\ \A q \in Procs : proc[q].model # <<>>
    /\ p = "k2" => proc["k2"].ops < proc["k1"].ops

\* the networks a kernel builds here: those of one hidden layer, in "k2" the
\* one of the checkpoint's input and output size
IOBuilds(p) ==
    {b \in Builds : /\ Len(b.arch.hidden_layers) = 1
                    /\ p = "k2" => b.arch.input_size = CheckpointInputSize}

\* the network an earlier session left in 'checkpoint.pth': its values are
\* of no draw of this session
EarlierNetwork ==
    LET b == CHOOSE b \in IOBuilds("k2") : TRUE
    IN  Network(b.arch.input_size, b.arch.output_size, b.arch.hidden_layers, b.drop_p, -1)

\* the kernels start in a directory without 'checkpoint.pth' or with the one
\* cell 11 of an earlier session wrote
InitIO ==
    /\ model = <<>>
    /\ state_dict = <<>>
    /\ call = NoCall
    /\ raised = <<>>
    /\ saved = <<>>
    /\ trained = <<>>
    /\ cell = 0
    /\ rng = 0
    /\ proc = [p \in Procs |-> NoOp]
    /\ last_writer = "none"
    /\ racy = FALSE
    /\ FreshTraining(<<>>)
    /\ \/ /\ file = [exists |-> FALSE, bytes |-> <<>>, written |-> 0]
          /\ completed = {}
       \/ /\ file = Written(Checkpoint(EarlierNetwork))
          /\ completed = {Checkpoint(EarlierNetwork)}

\* the file holds no data where nothing was written below a later write
Hole == [name |-> "hole", body |-> 0]

\* a record written at position i of the file
WriteAt(bytes, i, rec) ==
    IF i <= Len(bytes) THEN [bytes EXCEPT ![i] = rec]
    ELSE bytes \o [k \in 1..(i - Len(bytes) - 1) |-> Hole] \o <<rec>>

\* kernel p starts a cell that saves or loads
StartOp(p, op) ==
    [NoOp EXCEPT !.op = op, !.ops = proc[p].ops + 1, !.model = proc[p].model]

\* mutant: the exception leaves the call with the file still open
RaiseIO_Leak(p, type) ==
    [proc[p] EXCEPT !.pc = "error", !.raised = <<type>>]

\* mutant: the exception is caught inside the call and nothing is raised
RaiseIO_Swallow(p, type) ==
    [proc[p] EXCEPT !.pc = "error", !.handle = FALSE]

\* a call of kernel p ends with an exception; its `with` block closes the file
RaiseIO(p, type) ==
    [proc[p] EXCEPT !.pc = "error", !.handle = FALSE, !.raised = <<type>>]

\* cell 4 in kernel p, run once, before its save and load cells
Build(p, arch, drop_p) ==
    /\ proc[p].pc = "idle"
    /\ proc[p].model = <<>>
    /\ p = "k2" => proc["k1"].model # <<>>
    /\ rng < MaxDraws
    /\ proc' = [proc EXCEPT ![p].model =
                   <<Network(arch.input_size, arch.output_size, arch.hidden_layers,
                             drop_p, rng)>>]
    /\ rng' = rng + 1
    /\ UNCHANGED <<training, model, state_dict, file, call, raised, saved, trained, cell,
                   completed, last_writer, racy>>

\* the save cell a kernel runs next: cell 7, which comes first in the
\* notebook, as the first of all, or cell 11
SaveCells == IF OpsStarted = 0 THEN {7, 11} ELSE {11}

\* the object a save cell hands to torch.save: cell 7 the state dict, cell 11
\* the checkpoint
SavedObject(n, m) == IF n = 7 THEN StateDict(m) ELSE Checkpoint(m)

\* mutant: the destination is opened for appending
SaveOpen_Append(p, n) ==
    /\ CanStart(p)
    /\ LET obj == SavedObject(n, proc[p].model[1])
       IN  /\ proc' = [proc EXCEPT ![p] =
                          [StartOp(p, "save") EXCEPT
                              !.pc = "writing", !.handle = TRUE, !.obj = <<obj>>,
                              !.todo = file.bytes \o TorchSave(obj),
                              !.pos = Len(file.bytes), !.before = file.bytes]]
           /\ file' = [exists |-> TRUE, bytes |-> file.bytes,
                       written |-> Len(TorchSave(obj))]
    /\ racy' = (racy \/ \E q \in Procs \ {p} : proc[q].handle)
    /\ last_writer' = p
    /\ UNCHANGED <<training, model, state_dict, call, raised, saved, trained, cell, rng, completed>>

\* mutant: a destination that exists is left as it is
SaveOpen_Exclusive(p, n) ==
    /\ CanStart(p)
    /\ LET obj == SavedObject(n, proc[p].model[1])
       IN  /\ proc' = [proc EXCEPT ![p] =
                          [StartOp(p, "save") EXCEPT
                              !.pc = "writing", !.handle = TRUE, !.obj = <<obj>>,
                              !.todo = IF file.exists THEN <<>> ELSE TorchSave(obj),
                              !.pos = 0, !.before = file.bytes]]
           /\ file' = [exists |-> TRUE, bytes |-> file.bytes,
                       written |-> Len(TorchSave(obj))]
    /\ racy' = (racy \/ \E q \in Procs \ {p} : proc[q].handle)
    /\ last_writer' = p
    /\ UNCHANGED <<training, model, state_dict, call, raised, saved, trained, cell, rng, completed>>

\* torch.save(obj, 'checkpoint.pth'), the file opened: it is empty now
SaveOpen(p, n) ==
    /\ CanStart(p)
    /\ LET obj == SavedObject(n, proc[p].model[1])
       IN  /\ proc' = [proc EXCEPT ![p] =
                          [StartOp(p, "save") EXCEPT
                              !.pc = "writing", !.handle = TRUE, !.obj = <<obj>>,
                              !.todo = TorchSave(obj), !.pos = 0,
                              !.before = file.bytes]]
           /\ file' = [exists |-> TRUE, bytes |-> <<>>,
                       written |-> Len(TorchSave(obj))]
    /\ racy' = (racy \/ \E q \in Procs \ {p} : proc[q].handle)
    /\ last_writer' = p
    /\ UNCHANGED <<training, model, state_dict, call, raised, saved, trained, cell, rng, completed>>

\* torch.save, the next record written at the writer's position; with the
\* last one, the central directory, the save has written its object completely
SaveWrite(p) ==
    /\ proc[p].pc = "writing"
    /\ proc[p].pos < Len(proc[p].todo)
    /\ file' = [file EXCEPT
                   !.bytes = WriteAt(file.bytes, proc[p].pos + 1, proc[p].todo[proc[p].pos + 1])]
    /\ proc' = [proc EXCEPT ![p].pos = proc[p].pos + 1]
    /\ last_writer' = p
    /\ completed' = IF proc[p].pos + 1 = Len(proc[p].todo)
                    THEN completed \cup {proc[p].obj[1]} ELSE completed
    /\ UNCHANGED <<training, model, state_dict, call, raised, saved, trained, cell, rng, racy>>

\* torch.save, every record written: the file is closed, the cell ends
SaveClose(p) ==
    /\ proc[p].pc = "writing"
    /\ proc[p].pos = Len(proc[p].todo)
    /\ proc' = [proc EXCEPT ![p].pc = "saved", ![p].handle = FALSE]
    /\ UNCHANGED <<training, model, state_dict, file, call, raised, saved, trained, cell, rng,
                   completed, last_writer, racy>>

\* the kernel is interrupted while torch.save writes: KeyboardInterrupt
\* leaves the `with` block, what was written stays
SaveInterrupt(p) ==
    /\ proc[p].pc = "writing"
    /\ proc' = [proc EXCEPT ![p] = RaiseIO(p, "KeyboardInterrupt")]
    /\ UNCHANGED <<training, model, state_dict, file, call, raised, saved, trained, cell, rng,
                   completed, last_writer, racy>>

\* load_checkpoint: torch.load(filepath), the file opened
LoadOpen(p) ==
    /\ CanStart(p)
    /\ IF ~file.exists
       THEN /\ proc' = [proc EXCEPT ![p] =
                           [StartOp(p, "load") EXCEPT !.pc = "error",
                                                      !.raised = <<"FileNotFoundError">>]]
            /\ racy' = racy
       ELSE /\ proc' = [proc EXCEPT ![p] =
                           [StartOp(p, "load") EXCEPT !.pc = "opened", !.handle = TRUE]]
            /\ racy' = (racy \/ \E q \in Procs \ {p} : proc[q].pc = "writing")
    /\ UNCHANGED <<training, model, state_dict, file, call, raised, saved, trained, cell, rng,
                   completed, last_writer>>

\* mutant: an archive without its central directory is read all the same,
\* if the records data.pkl names are there
LoadDirectory_Lenient(p) ==
    /\ proc[p].pc = "opened"
    /\ LET b == file.bytes
           n == IF Len(b) > 0 /\ b[1].name = "data.pkl" THEN Len(TensorsOf(b[1].body)) + 1
                ELSE 0
       IN  IF n > 0 /\ Len(b) >= n
           THEN proc' = [proc EXCEPT ![p].pc = "reading",
                                     ![p].dir = SubSeq(b, 1, n) \o <<Hole, Hole>>,
                                     ![p].pos = 0]
           ELSE proc' = [proc EXCEPT ![p] = RaiseIO(p, "RuntimeError")]
    /\ UNCHANGED <<training, model, state_dict, file, call, raised, saved, trained, cell, rng,
                   completed, last_writer, racy>>

\* torch.load, the central directory read from the end of the file
LoadDirectory(p) ==
    /\ proc[p].pc = "opened"
    /\ IF ~ZipReadable(file.bytes)
       THEN proc' = [proc EXCEPT ![p] = RaiseIO(p, "RuntimeError")]
       ELSE proc' = [proc EXCEPT ![p].pc = "reading", ![p].dir = file.bytes, ![p].pos = 0]
    /\ UNCHANGED <<training, model, state_dict, file, call, raised, saved, trained, cell, rng,
                   completed, last_writer, racy>>

\* the records torch.load reads: data.pkl and the storages
NeededRecords(dir) == Len(dir) - 2

\* torch.load, the next record read where the directory says it is: what the
\* file holds there now.  A record that is no longer the one the directory
\* listed fails the checksum in a reader built to verify it, and is taken as
\* it is in a reader built without
LoadRecord(p) ==
    /\ proc[p].pc = "reading"
    /\ proc[p].pos < NeededRecords(proc[p].dir)
    /\ LET i == proc[p].pos + 1
       IN  IF \/ i > Len(file.bytes)
              \/ file.bytes[i].name \in {"hole", "version", "central_directory"}
           THEN proc' = [proc EXCEPT ![p] = RaiseIO(p, "RuntimeError")]
           ELSE \/ proc' = [proc EXCEPT ![p].got = Append(proc[p].got, file.bytes[i]),
                                        ![p].pos = i]
                \/ /\ file.bytes[i] # proc[p].dir[i]
                   /\ proc' = [proc EXCEPT ![p] = RaiseIO(p, "RuntimeError")]
    /\ UNCHANGED <<training, model, state_dict, file, call, raised, saved, trained, cell, rng,
                   completed, last_writer, racy>>

\* torch.load returns the object, the file closed
LoadUnpickle(p) ==
    /\ proc[p].pc = "reading"
    /\ proc[p].pos = NeededRecords(proc[p].dir)
    /\ proc' = [proc EXCEPT ![p].pc = "DESERIALIZED", ![p].handle = FALSE,
                            ![p].obj = <<Unpickle(proc[p].got)>>]
    /\ UNCHANGED <<training, model, state_dict, file, call, raised, saved, trained, cell, rng,
                   completed, last_writer, racy>>

\* the rest of load_checkpoint: the network built from the descriptor, the
\* state dict loaded into it, the network returned and bound by cell 13
LoadRestore(p) ==
    /\ proc[p].pc = "DESERIALIZED"
    /\ LET checkpoint == proc[p].obj[1]
       IN  IF \E i \in DOMAIN DescriptorFields : ~Has(checkpoint, DescriptorFields[i])
           THEN /\ proc' = [proc EXCEPT ![p] = RaiseIO(p, "KeyError")]
                /\ rng' = rng
           ELSE /\ rng < MaxDraws
                /\ rng' = rng + 1
                /\ LET net == Network(Get(checkpoint, "input_size"),
                                      Get(checkpoint, "output_size"),
                                      Get(checkpoint, "hidden_layers"), DefaultDropP, rng)
                       sd == Get(checkpoint, "state_dict")
                       r == LoadRest(StartLoadStateDict("load_checkpoint", sd, net.params),
                                     net.params)
                   IN  IF ErrorMsgs(r.call, r.params) # <<>>
                       THEN proc' = [proc EXCEPT ![p] = RaiseIO(p, "RuntimeError")]
                       ELSE proc' = [proc EXCEPT
                                       ![p].pc = "loaded",
                                       ![p].result = <<[net EXCEPT !.params = r.params]>>,
                                       ![p].model = <<[net EXCEPT !.params = r.params]>>]
    /\ UNCHANGED <<training, model, state_dict, file, call, raised, saved, trained, cell,
                   completed, last_writer, racy>>

NextIO ==
    \/ \E p \in Procs : \E b \in IOBuilds(p) : Build(p, b.arch, b.drop_p)
    \/ \E p \in Procs : \E n \in SaveCells : SaveOpen(p, n)
    \/ \E p \in Procs : SaveWrite(p)
    \/ \E p \in Procs : SaveClose(p)
    \/ \E p \in Procs : SaveInterrupt(p)
    \/ \E p \in Procs : LoadOpen(p)
    \/ \E p \in Procs : LoadDirectory(p)
    \/ \E p \in Procs : LoadRecord(p)
    \/ \E p \in Procs : LoadUnpickle(p)
    \/ \E p \in Procs : LoadRestore(p)

SpecIO == InitIO /\ [][NextIO]_vars

----------------------------------------------------------------------------
(* Training Neural Networks: the notebook's cells 2 to 21 (cell 8 prints    *)
(* y.grad_fn and changes nothing).  A weight is                             *)
(* kept in thousandths, so that a learning rate of 0.003 is the integer 3;  *)
(* a gradient and a loss are small whole numbers that depend on the weights *)
(* and on the batch.  One pass over the loader draws each of its batches    *)
(* once, in any order (shuffle=True).                                       *)

\* batches of the data loader
MaxBatches == 2

\* epochs = 5; optim.SGD(..., lr=0.01) of cell 14 and lr=0.003 of the
\* training loop, in thousandths
Epochs == 5
LrCell14 == 10
LrLoop == 3

\* what the training notebook leaves alone: the names and the file of the
\* notebook that saves and loads
checkpointing == <<state_dict, file, call, saved, trained, proc, completed,
                   last_writer, racy>>

\* nn.Sequential(nn.Linear(784, 128), nn.ReLU(), nn.Linear(128, 64), nn.ReLU(),
\*               nn.Linear(64, 10), nn.LogSoftmax(dim=1)),
\* its parameters initialised with random draw number `seed`, every .grad None
Sequential(seed) ==
    LET params == LinearParams("0", Linear(784, 128), seed)
                  \o LinearParams("2", Linear(128, 64), seed)
                  \o LinearParams("4", Linear(64, 10), seed)
    IN  [params |-> params,
         grads |-> [i \in DOMAIN params |-> <<>>],
         requires_grad |-> TRUE]

\* model(images): the result is tracked when the gradient mode is on and the
\* parameters require gradients
Forward(m, batch, enabled) ==
    [batch |-> batch, requires_grad |-> enabled /\ m.requires_grad]

\* the number the loss of `batch` is at the weights of m
LossItem(m, batch) == 1 + (((m.params[1][2].data \div 3) + batch) % 3)

\* criterion(out, labels)
Criterion(m, o) ==
    [item |-> LossItem(m, o.batch), batch |-> o.batch, requires_grad |-> o.requires_grad]

\* the gradient of the loss of `batch` with respect to parameter i of m
Gradient(m, batch, i) ==
    Tensor(m.params[i][2].shape, 2 * ((m.params[i][2].data + batch + i) % 2) - 1)

\* mutant: the backward pass leaves the bias gradients empty
Backward_WeightsOnly(m, l) ==
    [m EXCEPT !.grads = [i \in DOMAIN m.params |->
        IF i % 2 = 0 THEN m.grads[i]
        ELSE IF m.grads[i] = <<>> THEN <<Gradient(m, l.batch, i)>>
        ELSE <<Tensor(m.grads[i][1].shape,
                      m.grads[i][1].data + Gradient(m, l.batch, i).data)>>]]

\* loss.backward(): the gradient of the loss is stored in a parameter whose
\* .grad is None and added to the .grad of any other
Backward(m, l) ==
    [m EXCEPT !.grads = [i \in DOMAIN m.params |->
        IF m.grads[i] = <<>> THEN <<Gradient(m, l.batch, i)>>
        ELSE <<Tensor(m.grads[i][1].shape,
                      m.grads[i][1].data + Gradient(m, l.batch, i).data)>>]]

\* mutant: zero_grad resets the weights as well
ZeroGrad_ResetWeights(m) ==
    [m EXCEPT !.grads = [i \in DOMAIN m.params |-> <<>>],
              !.params = [i \in DOMAIN m.params |->
                            <<m.params[i][1], Tensor(m.params[i][2].shape, 0)>>]]

\* optimizer.zero_grad(): every .grad is set to None
ZeroGrad(m) == [m EXCEPT !.grads = [i \in DOMAIN m.params |-> <<>>]]

\* optimizer.step() of SGD: W' = W - lr * grad for every parameter that has a
\* gradient; the gradients stay
SGDStep(m, lr) ==
    [m EXCEPT !.params = [i \in DOMAIN m.params |->
        IF m.grads[i] = <<>> THEN m.params[i]
        ELSE <<m.params[i][1],
               Tensor(m.params[i][2].shape,
                      m.params[i][2].data - lr * m.grads[i][1].data)>>]]

\* a cell can be run: none is running, and cell n has not been passed
CanRun(n) == pc = "idle" /\ cell < n

\* the kernel is started and cell 1 has built the loader
InitTrain ==
    /\ model = <<>>
    /\ state_dict = <<>>
    /\ file = [exists |-> FALSE, bytes |-> <<>>, written |-> 0]
    /\ call = NoCall
    /\ raised = <<>>
    /\ saved = <<>>
    /\ trained = <<>>
    /\ cell = 1
    /\ rng = 0
    /\ proc = [p \in Procs |-> NoOp]
    /\ completed = {}
    /\ last_writer = "none"
    /\ racy = FALSE
    /\ \E n \in 0..MaxBatches : FreshTraining(<<[len |-> n]>>)

\* cells 2, 5 and 12: model = nn.Sequential(...); criterion = ...;
\* images, labels = next(iter(trainloader)); logits = model(images);
\* loss = criterion(logits, labels); cells 2 and 5 print the loss
CellLoss(n) ==
    /\ CanRun(n)
    /\ cell' = n
    /\ model' = <<Sequential(rng)>>
    /\ rng' = rng + 1
    /\ reached' = 0
    /\ IF trainloader[1].len = 0
       THEN /\ raised' = Exception("StopIteration", <<>>)
            /\ stdout' = <<>>
            /\ UNCHANGED <<images, logits, loss>>
       ELSE \E b \in 1..trainloader[1].len :
            /\ images' = <<b>>
            /\ logits' = <<Forward(model'[1], b, grad_enabled)>>
            /\ loss' = <<Criterion(model'[1], logits'[1])>>
            /\ stdout' = IF n = 12 THEN <<>> ELSE loss'
            /\ raised' = <<>>
    /\ UNCHANGED <<checkpointing, x, y, z, trainloader, optim, optimizer, out, grad_enabled,
                   no_grad, pc, e, it, running_loss, since_zero, steps, losses>>

\* cell 6: x = torch.randn(2, 2, requires_grad=True); print(x)
Cell6 ==
    /\ CanRun(6)
    /\ cell' = 6
    /\ x' = <<[tensor |-> Tensor(<<2, 2>>, 2 * (rng + 1)), grad |-> <<>>]>>
    /\ rng' = rng + 1
    /\ stdout' = <<x'[1].tensor>>
    /\ raised' = <<>>
    /\ UNCHANGED <<checkpointing, y, z, model, trainloader, optim, optimizer, images,
                   logits, out, loss, grad_enabled, no_grad, pc, e, it, running_loss,
                   since_zero, steps, losses, reached>>

\* cell 7: y = x**2; print(y)
Cell7Square ==
    /\ CanRun(7)
    /\ cell' = 7
    /\ IF x = <<>>
       THEN /\ raised' = Exception("NameError", <<>>)
            /\ stdout' = <<>>
            /\ UNCHANGED y
       ELSE /\ y' = <<Tensor(x[1].tensor.shape, x[1].tensor.data * x[1].tensor.data)>>
            /\ stdout' = y'
            /\ raised' = <<>>
    /\ UNCHANGED <<checkpointing, x, z, model, rng, trainloader, optim, optimizer,
                   images, logits, out, loss, grad_enabled, no_grad, pc, e, it,
                   running_loss, since_zero, steps, losses, reached>>

\* cell 9: z = y.mean(); print(z)
Cell9Mean ==
    /\ CanRun(9)
    /\ cell' = 9
    /\ IF y = <<>>
       THEN /\ raised' = Exception("NameError", <<>>)
            /\ stdout' = <<>>
            /\ UNCHANGED z
       ELSE /\ z' = <<Tensor(<<>>, y[1].data)>>
            /\ stdout' = z'
            /\ raised' = <<>>
    /\ UNCHANGED <<checkpointing, x, y, model, rng, trainloader, optim, optimizer,
                   images, logits, out, loss, grad_enabled, no_grad, pc, e, it,
                   running_loss, since_zero, steps, losses, reached>>

\* cell 10: print(x.grad)
Cell10PrintGrad ==
    /\ CanRun(10)
    /\ cell' = 10
    /\ IF x = <<>>
       THEN /\ raised' = Exception("NameError", <<>>)
            /\ stdout' = <<>>
       ELSE /\ stdout' = <<x[1].grad>>
            /\ raised' = <<>>
    /\ UNCHANGED <<checkpointing, x, y, z, model, rng, trainloader, optim, optimizer,
                   images, logits, out, loss, grad_enabled, no_grad, pc, e, it,
                   running_loss, since_zero, steps, losses, reached>>

\* the gradient of z = mean(x**2) with respect to x: x / 2 (four elements)
HalfOf(t) == Tensor(t.shape, t.data \div 2)

\* cell 11: z.backward(); print(x.grad); print(x/2)
Cell11ZBackward ==
    /\ CanRun(11)
    /\ cell' = 11
    /\ IF z = <<>>
       THEN /\ raised' = Exception("NameError", <<>>)
            /\ stdout' = <<>>
            /\ UNCHANGED x
       ELSE /\ x' = <<[x[1] EXCEPT !.grad =
                        IF x[1].grad = <<>> THEN <<HalfOf(x[1].tensor)>>
                        ELSE <<Tensor(x[1].tensor.shape,
                                      x[1].grad[1].data + HalfOf(x[1].tensor).data)>>]>>
            /\ stdout' = <<x'[1].grad, <<HalfOf(x[1].tensor)>> >>
            /\ raised' = <<>>
    /\ UNCHANGED <<checkpointing, y, z, model, rng, trainloader, optim, optimizer,
                   images, logits, out, loss, grad_enabled, no_grad, pc, e, it,
                   running_loss, since_zero, steps, losses, reached>>

\* cell 13: print(model[0].weight.grad); loss.backward(); print(model[0].weight.grad)
Cell13Backward ==
    /\ CanRun(13)
    /\ cell' = 13
    /\ IF model = <<>>
       THEN /\ raised' = Exception("NameError", <<>>)
            /\ stdout' = <<>>
            /\ UNCHANGED <<model, reached, since_zero>>
       ELSE IF loss = <<>>
       THEN /\ raised' = Exception("NameError", <<>>)
            /\ stdout' = <<model[1].grads[1]>>
            /\ UNCHANGED <<model, reached, since_zero>>
       ELSE /\ model' = <<Backward(model[1], loss[1])>>
            /\ stdout' = <<model[1].grads[1], model'[1].grads[1]>>
            /\ reached' = reached + 1
            /\ since_zero' = IF since_zero >= 0 THEN since_zero + 1 ELSE since_zero
            /\ raised' = <<>>
    /\ UNCHANGED <<checkpointing, x, y, z, rng, trainloader, optim, optimizer, images, logits,
                   out, loss, grad_enabled, no_grad, pc, e, it, running_loss, steps,
                   losses>>

\* cell 14: from torch import optim; optimizer = optim.SGD(model.parameters(), lr=0.01)
Cell14 ==
    /\ CanRun(14)
    /\ cell' = 14
    /\ optim' = TRUE
    /\ stdout' = <<>>
    /\ IF model = <<>>
       THEN /\ raised' = Exception("NameError", <<>>)
            /\ UNCHANGED <<optimizer, since_zero>>
       ELSE /\ optimizer' = <<[lr |-> LrCell14]>>
            /\ since_zero' = -1
            /\ raised' = <<>>
    /\ UNCHANGED <<checkpointing, x, y, z, model, rng, trainloader, images, logits, out, loss,
                   grad_enabled, no_grad, pc, e, it, running_loss, steps, losses,
                   reached>>

\* mutant: the single training step without its optimizer.zero_grad()
Cell15_NoZeroGrad ==
    /\ CanRun(15)
    /\ cell' = 15
    /\ IF model = <<>>
       THEN /\ raised' = Exception("NameError", <<>>)
            /\ stdout' = <<>>
            /\ UNCHANGED <<model, images, loss, since_zero, reached>>
       ELSE IF trainloader[1].len = 0
       THEN /\ raised' = Exception("StopIteration", <<>>)
            /\ stdout' = <<model[1].params[1][2]>>
            /\ UNCHANGED <<model, images, loss, since_zero, reached>>
       ELSE \E b \in 1..trainloader[1].len :
            /\ images' = <<b>>
            /\ IF optimizer = <<>>
               THEN /\ raised' = Exception("NameError", <<>>)
                    /\ stdout' = <<model[1].params[1][2]>>
                    /\ UNCHANGED <<model, loss, since_zero, reached>>
               ELSE LET output == Forward(model[1], b, grad_enabled)
                    IN  /\ loss' = <<Criterion(model[1], output)>>
                        /\ model' = <<Backward(model[1], loss'[1])>>
                        /\ stdout' = <<model[1].params[1][2], model'[1].grads[1]>>
                        /\ since_zero' = 1
                        /\ reached' = reached + 1
                        /\ raised' = <<>>
    /\ UNCHANGED <<checkpointing, x, y, z, rng, trainloader, optim, optimizer, logits, out,
                   grad_enabled, no_grad, pc, e, it, running_loss, steps, losses>>

\* cell 15, one training step short of the update: print the weights;
\* images, labels = next(iter(trainloader)); images.resize_(64, 784);
\* optimizer.zero_grad(); output = model.forward(images);
\* loss = criterion(output, labels); loss.backward(); print the gradient
Cell15 ==
    /\ CanRun(15)
    /\ cell' = 15
    /\ IF model = <<>>
       THEN /\ raised' = Exception("NameError", <<>>)
            /\ stdout' = <<>>
            /\ UNCHANGED <<model, images, loss, since_zero, reached>>
       ELSE IF trainloader[1].len = 0
       THEN /\ raised' = Exception("StopIteration", <<>>)
            /\ stdout' = <<model[1].params[1][2]>>
            /\ UNCHANGED <<model, images, loss, since_zero, reached>>
       ELSE \E b \in 1..trainloader[1].len :
            /\ images' = <<b>>
            /\ IF optimizer = <<>>
               THEN /\ raised' = Exception("NameError", <<>>)
                    /\ stdout' = <<model[1].params[1][2]>>
                    /\ UNCHANGED <<model, loss, since_zero, reached>>
               ELSE LET cleared == ZeroGrad(model[1])
                        output == Forward(cleared, b, grad_enabled)
                    IN  /\ loss' = <<Criterion(cleared, output)>>
                        /\ model' = <<Backward(cleared, loss'[1])>>
                        /\ stdout' = <<model[1].params[1][2], model'[1].grads[1]>>
                        /\ since_zero' = 1
                        /\ reached' = reached + 1
                        /\ raised' = <<>>
    /\ UNCHANGED <<checkpointing, x, y, z, rng, trainloader, optim, optimizer, logits, out,
                   grad_enabled, no_grad, pc, e, it, running_loss, steps, losses>>

\* cell 16: optimizer.step(); print the weights
Cell16 ==
    /\ CanRun(16)
    /\ cell' = 16
    /\ IF optimizer = <<>>
       THEN /\ raised' = Exception("NameError", <<>>)
            /\ stdout' = <<>>
            /\ UNCHANGED model
       ELSE /\ model' = <<SGDStep(model[1], optimizer[1].lr)>>
            /\ stdout' = <<model'[1].params[1][2]>>
            /\ raised' = <<>>
    /\ UNCHANGED <<checkpointing, x, y, z, rng, trainloader, optim, optimizer, images, logits,
                   out, loss, grad_enabled, no_grad, pc, e, it, running_loss,
                   since_zero, steps, losses, reached>>

\* cell 20, up to the loop: model = nn.Sequential(...); criterion = nn.NLLLoss();
\* optimizer = optim.SGD(model.parameters(), lr=0.003); epochs = 5
Cell20 ==
    /\ CanRun(20)
    /\ cell' = 20
    /\ model' = <<Sequential(rng)>>
    /\ rng' = rng + 1
    /\ reached' = 0
    /\ stdout' = <<>>
    /\ steps' = 0
    /\ IF ~optim
       THEN /\ raised' = Exception("NameError", <<>>)
            /\ UNCHANGED <<optimizer, since_zero, pc, e>>
       ELSE /\ optimizer' = <<[lr |-> LrLoop]>>
            /\ since_zero' = -1
            /\ e' = -1
            /\ pc' = "for_e"
            /\ raised' = <<>>
    /\ UNCHANGED <<checkpointing, x, y, z, trainloader, optim, images, logits, out, loss,
                   grad_enabled, no_grad, it, running_loss, losses>>

\* for e in range(epochs): running_loss = 0, and the inner for takes a new
\* iterator of the loader; after the last pass the cell ends
ForEpoch ==
    /\ pc = "for_e"
    /\ IF e + 1 < Epochs
       THEN /\ e' = e + 1
            /\ running_loss' = 0
            /\ losses' = <<>>
            /\ it' = 1..trainloader[1].len
            /\ pc' = "for_batch"
       ELSE /\ pc' = "idle"
            /\ UNCHANGED <<e, running_loss, losses, it>>
    /\ UNCHANGED <<checkpointing, x, y, z, model, raised, cell, rng, trainloader, optim,
                   optimizer, images, logits, out, loss, grad_enabled, no_grad, stdout,
                   since_zero, steps, reached>>

\* for images, labels in trainloader: the next batch, flattened by
\* images.view(images.shape[0], -1); the else clause once there is none
ForBatch ==
    /\ pc = "for_batch"
    /\ IF it = {}
       THEN /\ pc' = "else"
            /\ UNCHANGED <<images, it>>
       ELSE \E b \in it :
            /\ images' = <<b>>
            /\ it' = it \ {b}
            /\ pc' = "zero_grad"
    /\ UNCHANGED <<checkpointing, x, y, z, model, raised, cell, rng, trainloader, optim,
                   optimizer, logits, out, loss, grad_enabled, no_grad, e, running_loss,
                   stdout, since_zero, steps, losses, reached>>

\* mutant: the loop's optimizer.zero_grad() does nothing
LoopZeroGrad_Nothing ==
    /\ pc = "zero_grad"
    /\ pc' = "forward"
    /\ UNCHANGED <<checkpointing, x, y, z, model, since_zero, raised, cell, rng, trainloader,
                   optim, optimizer, images, logits, out, loss, grad_enabled, no_grad,
                   e, it, running_loss, stdout, steps, losses, reached>>

\* optimizer.zero_grad()
LoopZeroGrad ==
    /\ pc = "zero_grad"
    /\ model' = <<ZeroGrad(model[1])>>
    /\ since_zero' = 0
    /\ pc' = "forward"
    /\ UNCHANGED <<checkpointing, x, y, z, raised, cell, rng, trainloader, optim, optimizer,
                   images, logits, out, loss, grad_enabled, no_grad, e, it,
                   running_loss, stdout, steps, losses, reached>>

\* out = model(images)
LoopForward ==
    /\ pc = "forward"
    /\ out' = <<Forward(model[1], images[1], grad_enabled)>>
    /\ pc' = "criterion"
    /\ UNCHANGED <<checkpointing, x, y, z, model, raised, cell, rng, trainloader, optim,
                   optimizer, images, logits, loss, grad_enabled, no_grad, e, it,
                   running_loss, stdout, since_zero, steps, losses, reached>>

\* loss = criterion(out, labels)
LoopCriterion ==
    /\ pc = "criterion"
    /\ loss' = <<Criterion(model[1], out[1])>>
    /\ pc' = "backward"
    /\ UNCHANGED <<checkpointing, x, y, z, model, raised, cell, rng, trainloader, optim,
                   optimizer, images, logits, out, grad_enabled, no_grad, e, it,
                   running_loss, stdout, since_zero, steps, losses, reached>>

\* loss.backward()
LoopBackward ==
    /\ pc = "backward"
    /\ model' = <<Backward(model[1], loss[1])>>
    /\ since_zero' = since_zero + 1
    /\ reached' = reached + 1
    /\ pc' = "step"
    /\ UNCHANGED <<checkpointing, x, y, z, raised, cell, rng, trainloader, optim, optimizer,
                   images, logits, out, loss, grad_enabled, no_grad, e, it,
                   running_loss, stdout, steps, losses>>

\* optimizer.step()
LoopStep ==
    /\ pc = "step"
    /\ model' = <<SGDStep(model[1], optimizer[1].lr)>>
    /\ steps' = steps + 1
    /\ pc' = "running_loss"
    /\ UNCHANGED <<checkpointing, x, y, z, raised, cell, rng, trainloader, optim, optimizer,
                   images, logits, out, loss, grad_enabled, no_grad, e, it,
                   running_loss, stdout, since_zero, losses, reached>>

\* mutant: running_loss keeps the loss of the last batch only
LoopRunningLoss_Last ==
    /\ pc = "running_loss"
    /\ running_loss' = loss[1].item
    /\ losses' = Append(losses, loss[1].item)
    /\ pc' = "for_batch"
    /\ UNCHANGED <<checkpointing, x, y, z, model, raised, cell, rng, trainloader, optim,
                   optimizer, images, logits, out, loss, grad_enabled, no_grad, e, it,
                   stdout, since_zero, steps, reached>>

\* running_loss += loss.item()
LoopRunningLoss ==
    /\ pc = "running_loss"
    /\ running_loss' = running_loss + loss[1].item
    /\ losses' = Append(losses, loss[1].item)
    /\ pc' = "for_batch"
    /\ UNCHANGED <<checkpointing, x, y, z, model, raised, cell, rng, trainloader, optim,
                   optimizer, images, logits, out, loss, grad_enabled, no_grad, e, it,
                   stdout, since_zero, steps, reached>>

\* mutant: the else clause ends the cell after the first pass
ForElse_Once ==
    /\ pc = "else"
    /\ IF trainloader[1].len = 0
       THEN /\ raised' = Exception("ZeroDivisionError", <<>>)
            /\ pc' = "idle"
            /\ UNCHANGED stdout
       ELSE /\ stdout' = Append(stdout, [num |-> running_loss, den |-> trainloader[1].len])
            /\ pc' = "idle"
            /\ UNCHANGED raised
    /\ UNCHANGED <<checkpointing, x, y, z, model, cell, rng, trainloader, optim, optimizer,
                   images, logits, out, loss, grad_enabled, no_grad, e, it,
                   running_loss, since_zero, steps, losses, reached>>

\* else: print(f"Training loss: {running_loss/len(trainloader)}"); the
\* quotient is kept as numerator and denominator, and a loader without
\* batches makes the division raise
ForElse ==
    /\ pc = "else"
    /\ IF trainloader[1].len = 0
       THEN /\ raised' = Exception("ZeroDivisionError", <<>>)
            /\ pc' = "idle"
            /\ UNCHANGED stdout
       ELSE /\ stdout' = Append(stdout, [num |-> running_loss, den |-> trainloader[1].len])
            /\ pc' = "for_e"
            /\ UNCHANGED raised
    /\ UNCHANGED <<checkpointing, x, y, z, model, cell, rng, trainloader, optim, optimizer,
                   images, logits, out, loss, grad_enabled, no_grad, e, it,
                   running_loss, since_zero, steps, losses, reached>>

\* cell 21, up to the with statement: images, labels = next(iter(trainloader));
\* img = images[0].view(1, 784)
Cell21 ==
    /\ CanRun(21)
    /\ cell' = 21
    /\ stdout' = <<>>
    /\ IF trainloader[1].len = 0
       THEN /\ raised' = Exception("StopIteration", <<>>)
            /\ UNCHANGED <<images, pc>>
       ELSE \E b \in 1..trainloader[1].len :
            /\ images' = <<b>>
            /\ pc' = "with"
            /\ raised' = <<>>
    /\ UNCHANGED <<checkpointing, x, y, z, model, rng, trainloader, optim, optimizer, logits,
                   out, loss, grad_enabled, no_grad, e, it, running_loss, since_zero,
                   steps, losses, reached>>

\* with torch.no_grad(): the mode is remembered and turned off
NoGradEnter ==
    /\ pc = "with"
    /\ no_grad' = <<[prev |-> grad_enabled]>>
    /\ grad_enabled' = FALSE
    /\ pc' = "no_grad_body"
    /\ UNCHANGED <<checkpointing, x, y, z, model, raised, cell, rng, trainloader, optim,
                   optimizer, images, logits, out, loss, e, it, running_loss, stdout,
                   since_zero, steps, losses, reached>>

\* mutant: an exception in the block leaves the gradient mode off
NoGradForward_NoRestore ==
    /\ pc = "no_grad_body"
    /\ IF model = <<>>
       THEN /\ raised' = Exception("NameError", <<>>)
            /\ no_grad' = <<>>
            /\ pc' = "idle"
            /\ UNCHANGED <<logits, grad_enabled>>
       ELSE /\ logits' = <<Forward(model[1], images[1], grad_enabled)>>
            /\ pc' = "no_grad_exit"
            /\ UNCHANGED <<raised, grad_enabled, no_grad>>
    /\ UNCHANGED <<checkpointing, x, y, z, model, cell, rng, trainloader, optim, optimizer,
                   images, out, loss, e, it, running_loss, stdout, since_zero, steps,
                   losses, reached>>

\* logits = model.forward(img) in the block; an exception (no `model`) leaves
\* the block through the context manager, which puts the mode back
NoGradForward ==
    /\ pc = "no_grad_body"
    /\ IF model = <<>>
       THEN /\ raised' = Exception("NameError", <<>>)
            /\ grad_enabled' = no_grad[1].prev
            /\ no_grad' = <<>>
            /\ pc' = "idle"
            /\ UNCHANGED logits
       ELSE /\ logits' = <<Forward(model[1], images[1], grad_enabled)>>
            /\ pc' = "no_grad_exit"
            /\ UNCHANGED <<raised, grad_enabled, no_grad>>
    /\ UNCHANGED <<checkpointing, x, y, z, model, cell, rng, trainloader, optim, optimizer,
                   images, out, loss, e, it, running_loss, stdout, since_zero, steps,
                   losses, reached>>

\* the block is left: the mode is put back; ps = F.softmax(logits, dim=1)
\* and the plot change nothing that is kept
NoGradExit ==
    /\ pc = "no_grad_exit"
    /\ grad_enabled' = no_grad[1].prev
    /\ no_grad' = <<>>
    /\ pc' = "idle"
    /\ UNCHANGED <<checkpointing, x, y, z, model, raised, cell, rng, trainloader, optim,
                   optimizer, images, logits, out, loss, e, it, running_loss, stdout,
                   since_zero, steps, losses, reached>>

\* a statement of the training loop cell
LoopNext ==
    \/ ForEpoch
    \/ ForBatch
    \/ LoopZeroGrad
    \/ LoopForward
    \/ LoopCriterion
    \/ LoopBackward
    \/ LoopStep
    \/ LoopRunningLoss
    \/ ForElse

\* the cells that train and use the network; cells 6 to 11, which work on
\* x, y and z alone, are left out
NextTrain ==
    \/ \E n \in {2, 5, 12} : CellLoss(n)
    \/ Cell13Backward
    \/ Cell14
    \/ Cell15
    \/ Cell16
    \/ Cell20
    \/ LoopNext
    \/ Cell21
    \/ NoGradEnter
    \/ NoGradForward
    \/ NoGradExit

SpecTrain == InitTrain /\ [][NextTrain]_vars

\* the cells up to the first backward pass through the network
NextAutograd ==
    \/ \E n \in {2, 5, 12} : CellLoss(n)
    \/ Cell6
    \/ Cell7Square
    \/ Cell9Mean
    \/ Cell10PrintGrad
    \/ Cell11ZBackward
    \/ Cell13Backward

SpecAutograd == InitTrain /\ [][NextAutograd]_vars

\* the kernel goes on with the cell it is running
SpecTrainFair == SpecTrain /\ WF_vars(LoopNext)

----------------------------------------------------------------------------
(* Properties *)

\* load_checkpoint has ended, with a network returned or with an exception
LoadCheckpointEnded == call.kind = "load_checkpoint" /\ call.pc \in {"ASSIGNED", "ERROR"}

\* a load_state_dict call has ended with its RuntimeError
LoadStateDictFailed == call.pc = "ERROR" /\ call.before # <<>>

\* the parameters of the network the ended call loaded into
TargetParams == IF call.kind = "load_checkpoint" THEN call.net[1].params ELSE model[1].params

\* C1 (as claimed): round-trip identity.  Whenever load_checkpoint has ended
\* on the file cell 11 wrote from a network M, it has returned a network
\* whose state dict has M's keys and, for every key, M's tensor.
C1_RoundTripIdentity ==
    (LoadCheckpointEnded /\ saved # <<>>)
        => /\ call.pc = "ASSIGNED"
           /\ StateDict(model[1]) = StateDict(saved[1])

\* C2 (as claimed): no partial assignment.  When load_state_dict has failed,
\* every parameter of the network it loaded into holds the value it had
\* before the call.
C2_NoPartialAssignment ==
    LoadStateDictFailed => TargetParams = call.before

\* C2 (amended): when load_state_dict has failed, a parameter whose name is
\* missing from the snapshot or whose shape differs holds the value it had
\* before the call, and a parameter whose shape matches has been overwritten
\* with the snapshot's tensor; load_checkpoint has then not bound its
\* network to `model`.
C2_FailedLoadKeepsMismatchedOnly ==
    LoadStateDictFailed =>
        /\ \A i \in DOMAIN TargetParams :
              LET key == TargetParams[i][1]
              IN  IF Has(call.sd, key) /\ Get(call.sd, key).shape = call.before[i][2].shape
                  THEN TargetParams[i][2] = Get(call.sd, key)
                  ELSE TargetParams[i][2] = call.before[i][2]
        /\ call.kind = "load_checkpoint" => model # call.net

\* C2 witness: cell 10 has failed on the state dict of the 512/256/128
\* network, and output.bias of the new network is the snapshot's tensor, no
\* longer the one it was initialised with.
C2_Witness ==
    /\ call.kind = "cell10"
    /\ LoadStateDictFailed
    /\ Has(call.sd, "output.weight")
    /\ Get(call.sd, "output.weight").shape = <<10, 128>>
    /\ Get(model[1].params, "output.bias") = Get(call.sd, "output.bias")
    /\ Get(model[1].params, "output.bias") # Get(call.before, "output.bias")
    /\ Get(model[1].params, "output.weight") = Get(call.before, "output.weight")

\* what 'checkpoint.pth' holds, when torch.load can read it
FileObject == TorchLoad(file)[2]

\* C3 (as claimed): after the cells have run in order up to cell 11, the
\* checkpoint in the file holds the hidden sizes and the parameters of the
\* network cell 5 trained, and after cell 13 `model` is that network.
C3_CheckpointHoldsTrainedModel ==
    /\ cell \in {11, 13} =>
          /\ Get(FileObject, "hidden_layers") = HiddenSizes(trained[1])
          /\ Get(FileObject, "state_dict") = StateDict(trained[1])
    /\ cell = 13 =>
          /\ HiddenSizes(model[1]) = HiddenSizes(trained[1])
          /\ StateDict(model[1]) = StateDict(trained[1])


\* the names and shapes of an ordered dict of tensors
Shapes(sd) == [i \in DOMAIN sd |-> <<sd[i][1], sd[i][2].shape>>]

IsSizeMismatch(m) == m.what = "size mismatch"

\* the size mismatches the notebook shows for cell 10
NotebookSizeMismatches ==
    << SizeMismatch("hidden_layers.0.weight", Tensor(<<512, 784>>, 0), Tensor(<<400, 784>>, 0)),
       SizeMismatch("hidden_layers.0.bias", Tensor(<<512>>, 0), Tensor(<<400>>, 0)),
       SizeMismatch("hidden_layers.1.weight", Tensor(<<256, 512>>, 0), Tensor(<<200, 400>>, 0)),
       SizeMismatch("hidden_layers.1.bias", Tensor(<<256>>, 0), Tensor(<<200>>, 0)),
       SizeMismatch("hidden_layers.2.weight", Tensor(<<128, 256>>, 0), Tensor(<<100, 200>>, 0)),
       SizeMismatch("hidden_layers.2.bias", Tensor(<<128>>, 0), Tensor(<<100>>, 0)),
       SizeMismatch("output.weight", Tensor(<<10, 128>>, 0), Tensor(<<10, 100>>, 0)) >>

\* the snapshot of the failed call was saved from hidden sizes [512, 256, 128]
\* and the network it was loaded into was built for [400, 200, 100]
TrainedIntoMismatch ==
    /\ ~IsCheckpointDict(call.sd)
    /\ Shapes(call.sd)
         = Shapes(Network(784, 10, <<512, 256, 128>>, DefaultDropP, 0).params)
    /\ Shapes(call.before)
         = Shapes(Network(784, 10, <<400, 200, 100>>, DefaultDropP, 0).params)

\* C4: when load_state_dict has failed, its error lists every key whose
\* shape in the snapshot differs from the shape in the network, once, with
\* both shapes, and no key whose shapes agree; for the 512/256/128 snapshot
\* and the 400/200/100 network these are the seven keys of the notebook's
\* error, output.bias not among them.
C4_EveryMismatchListed ==
    LoadStateDictFailed =>
        LET listed == SelectSeq(call.error_msgs, IsSizeMismatch)
            differing == {k \in KeySet(call.before) :
                            /\ Has(call.sd, k)
                            /\ Get(call.sd, k).shape # Get(call.before, k).shape}
        IN  /\ {listed[i].key : i \in DOMAIN listed} = differing
            /\ Len(listed) = Cardinality(differing)
            /\ \A i \in DOMAIN listed :
                  /\ listed[i].checkpoint_shape = Get(call.sd, listed[i].key).shape
                  /\ listed[i].model_shape = Get(call.before, listed[i].key).shape
            /\ TrainedIntoMismatch => call.error_msgs = NotebookSizeMismatches

\* C4 witness: cell 10 has failed on the 512/256/128 snapshot with the seven
\* size mismatches.
C4_Witness ==
    /\ call.kind = "cell10"
    /\ LoadStateDictFailed
    /\ TrainedIntoMismatch
    /\ Len(call.error_msgs) = 7
    /\ \A i \in DOMAIN call.error_msgs : call.error_msgs[i].key # "output.bias"

\* C5: load_state_dict returns only if the snapshot's key set is the
\* network's, and then every parameter holds the snapshot's tensor: with a
\* key missing from the snapshot, or one the network does not have, the call
\* fails.
C5_KeySetEquality ==
    (call.pc = "ASSIGNED") =>
        /\ KeySet(call.sd) = KeySet(TargetParams)
        /\ \A i \in DOMAIN TargetParams :
              TargetParams[i][2] = Get(call.sd, TargetParams[i][1])

\* C5 witness: a load has failed on a snapshot that lacks a key of the
\* network, and that parameter is as it was.
C5_Witness ==
    /\ LoadStateDictFailed
    /\ call.missing_keys # <<>>
    /\ raised # <<>>
    /\ raised[1].error_msgs[1].what = "Missing key(s) in state_dict"
    /\ Get(TargetParams, call.missing_keys[1]) = Get(call.before, call.missing_keys[1])

\* C6 (as claimed): whenever load_checkpoint has returned a network for the
\* file cell 11 wrote from a network M, it has M's input size, output size,
\* hidden sizes and dropout rate.
C6_ArchitectureRestored ==
    (LoadCheckpointEnded /\ call.pc = "ASSIGNED" /\ saved # <<>>) =>
        /\ InputSize(model[1]) = InputSize(saved[1])
        /\ OutputSize(model[1]) = OutputSize(saved[1])
        /\ HiddenSizes(model[1]) = HiddenSizes(saved[1])
        /\ model[1].dropout = saved[1].dropout

\* C7 (as claimed): the descriptor cell 11 writes for a network M has M's
\* input size, output size and hidden sizes.
C7_DescriptorIsTheModels ==
    (saved # <<>>) =>
        /\ Get(FileObject, "input_size") = InputSize(saved[1])
        /\ Get(FileObject, "output_size") = OutputSize(saved[1])
        /\ Get(FileObject, "hidden_layers") = HiddenSizes(saved[1])

\* C8 (as claimed): while load_checkpoint has not validated the whole
\* snapshot, no parameter of its new network has been assigned.
C8_NoAssignmentBeforeValidation ==
    (call.kind = "load_checkpoint" /\ call.pc = "LOADING"
        /\ call.i <= Len(call.net[1].params))
        => call.net[1].params = call.before

LoadOrder ==
    {<<r, "START">> : r \in {"idle", "ASSIGNED", "ERROR"}}
    \cup { <<"START", "DESERIALIZED">>, <<"START", "ERROR">>,
           <<"DESERIALIZED", "FACTORY_BUILT">>, <<"DESERIALIZED", "ERROR">>,
           <<"FACTORY_BUILT", "LOADING">>, <<"FACTORY_BUILT", "ERROR">>,
           <<"LOADING", "LOADING">>, <<"LOADING", "ASSIGNED">>, <<"LOADING", "ERROR">> }

C8_Step ==
    (call'.kind = "load_checkpoint" /\ call' # call) =>
        /\ <<call.pc, call'.pc>> \in LoadOrder
        /\ (call'.checkpoint # call.checkpoint) => call.pc \in {"START"} \cup {"idle", "ASSIGNED", "ERROR"}
        /\ (call'.net # <<>> /\ call.pc # "LOADING" /\ call'.pc # "START") =>
              \/ call.pc = "DESERIALIZED" /\ call.net = <<>> /\ call'.net[1].params # <<>>
              \/ call'.net = call.net
        /\ (call.pc = "LOADING" /\ call'.pc = "LOADING") =>
              LET old == call.net[1].params
                  new == call'.net[1].params
                  key == old[call.i][1]
              IN  /\ call'.i = call.i + 1
                  /\ \A j \in DOMAIN old : j # call.i => new[j] = old[j]
                  /\ new[call.i] # old[call.i] =>
                        /\ Has(call.sd, key)
                        /\ Get(call.sd, key).shape = old[call.i][2].shape
                        /\ new[call.i][2] = Get(call.sd, key)
        /\ (call'.pc = "ASSIGNED") =>
              /\ call.pc = "LOADING"
              /\ call.i > Len(call.net[1].params)
              /\ call.error_msgs = <<>>
              /\ call.missing_keys = <<>>
              /\ call'.net = call.net

\* C8 (amended): every load_checkpoint runs torch.load, then the factory,
\* then load_state_dict, in that order; load_state_dict checks one parameter
\* at a time and assigns it at once if its shape matches, so a parameter is
\* assigned after its own check and before the later ones are checked; and
\* the call returns only after the last parameter, with no message collected.
C8_LoadOrder == [][C8_Step]_vars

\* C8 witness: load_checkpoint is in load_state_dict, the first parameter is
\* assigned and the last is still to be checked.
C8_Witness ==
    /\ call.kind = "load_checkpoint"
    /\ call.pc = "LOADING"
    /\ call.i <= Len(call.net[1].params)
    /\ call.net[1].params[1] # call.before[1]
    /\ call.net[1].params[Len(call.before)] = call.before[Len(call.before)]

LacksDescriptorField(checkpoint) ==
    \E k \in {"input_size", "output_size", "hidden_layers"} : ~Has(checkpoint, k)

C9_Step ==
    (call.kind = "load_checkpoint" /\ call.pc = "DESERIALIZED"
        /\ LacksDescriptorField(call.checkpoint[1]))
        => /\ call'.pc = "ERROR"
           /\ call'.net = <<>>
           /\ raised' = Exception("KeyError", <<>>)
           /\ model' = model
           /\ rng' = rng

\* C9: when the object torch.load returned lacks a descriptor field, as the
\* bare state dict of cell 7 does, the next step of load_checkpoint raises
\* KeyError: no network is built, none is returned, `model` stays as it was.
C9_MissingFieldFails == [][C9_Step]_vars

\* C9 witness: load_checkpoint has failed with KeyError on the bare state dict.
C9_Witness ==
    /\ call.kind = "load_checkpoint"
    /\ call.pc = "ERROR"
    /\ call.checkpoint # <<>>
    /\ ~Has(call.checkpoint[1], "input_size")
    /\ Has(call.checkpoint[1], "output.bias")
    /\ call.net = <<>>
    /\ raised = Exception("KeyError", <<>>)

C10_Step ==
    (call.kind = "load_checkpoint" /\ call.pc = "START"
        /\ file.exists /\ Len(file.bytes) < file.written)
        => /\ call'.pc = "ERROR"
           /\ call'.checkpoint = <<>>
           /\ call'.net = <<>>
           /\ raised' = Exception("RuntimeError", <<>>)
           /\ model' = model

\* C10: when the file is a proper prefix of what torch.save wrote, torch.load
\* in load_checkpoint raises: no object is deserialized, no network is built
\* or returned.
C10_TruncatedFails == [][C10_Step]_vars

\* C10 witness: load_checkpoint has failed on a checkpoint cut before the
\* data of its last parameter.
C10_Witness ==
    /\ call.kind = "load_checkpoint"
    /\ call.pc = "ERROR"
    /\ saved # <<>>
    /\ Len(file.bytes) > 0
    /\ Len(file.bytes) < file.written - 2
    /\ call.checkpoint = <<>>
    /\ raised = Exception("RuntimeError", <<>>)

C11_Step ==
    (Cell7 \/ Cell11 \/ (file'.bytes # file.bytes /\ Len(file'.bytes) = file'.written))
        => /\ model' = model
           /\ state_dict' = state_dict
           /\ rng' = rng

\* C11: a step that saves, cell 7 or cell 11, leaves `model` as it was: the
\* same parameter values, the same layers and dropout, the same
\* gradient-tracking flag; it changes neither `state_dict` nor the random
\* number generator.
C11_SaveLeavesModel == [][C11_Step]_vars

\* C11 witness: cell 11 has saved a trained network, which still tracks
\* gradients and whose parameters are the ones in the file.
C11_Witness ==
    /\ cell = 11
    /\ saved # <<>>
    /\ saved = model
    /\ model[1].requires_grad
    /\ Get(FileObject, "state_dict") = StateDict(model[1])

\* load_checkpoint is running: entered and not yet ended
InLoadCheckpoint ==
    call.kind = "load_checkpoint" /\ call.pc \in {"START", "DESERIALIZED", "FACTORY_BUILT", "LOADING"}

C12_Step ==
    InLoadCheckpoint =>
        /\ file' = file
        /\ state_dict' = state_dict
        /\ saved' = saved
        /\ (call'.pc # "ASSIGNED") => model' = model
        /\ (call'.pc = "ASSIGNED") => (model' = call.net /\ call.net # <<>>)
        /\ (call.pc = "START") => call.net = <<>>
        /\ (call.pc = "DESERIALIZED" /\ call'.pc = "FACTORY_BUILT") =>
              /\ rng' = rng + 1
              /\ \A i \in DOMAIN call'.net[1].params : call'.net[1].params[i][2].data = rng

\* C12: no step of load_checkpoint changes 'checkpoint.pth' or the global
\* `state_dict`, and none changes `model` before the call returns; the
\* network it returns, which cell 13 then binds to `model`, is the one the
\* call itself built with fc_model.Network, from a fresh random draw.
C12_LoadChangesNoSharedState == [][C12_Step]_vars

\* C12 witness: load_checkpoint has returned a network while `model` held
\* another one until the return: the file is as cell 11 wrote it.
C12_Witness ==
    /\ call.kind = "load_checkpoint"
    /\ call.pc = "ASSIGNED"
    /\ model = call.net
    /\ saved # <<>>
    /\ saved # model
    /\ file = Written(Checkpoint(saved[1]))

\* no kernel is writing 'checkpoint.pth'
NoneWriting == \A q \in Procs : proc[q].pc # "writing"

\* kernel p has run a save cell to its end and nothing has written since
SavedLast(p) == proc[p].pc = "saved" /\ last_writer = p /\ NoneWriting

ReturnedACompleteSave(p) ==
    \E obj \in completed :
        /\ IsCheckpointDict(obj)
        /\ Get(obj, "state_dict") = StateDict(proc[p].result[1])
        /\ Get(obj, "hidden_layers") = HiddenSizes(proc[p].result[1])

\* C14 (as claimed): whenever load_checkpoint returns a network, also when a
\* save to the same file ran at the same time, the network is the one some
\* save wrote completely.
C14_AtomicForConsumer ==
    \A p \in Procs : proc[p].pc = "loaded" => ReturnedACompleteSave(p)

\* C14 (amended): as long as no save has overlapped another use of the file,
\* a load_checkpoint that returns a network returns the one some save wrote
\* completely; on what an interrupted save left it fails.
C14_AtomicWithoutOverlap ==
    \A p \in Procs : (proc[p].pc = "loaded" /\ ~racy) => ReturnedACompleteSave(p)

\* C14 witness: a load has failed on the file an interrupted save left, with
\* some of its records written.
C14_Witness ==
    \E p, q \in Procs :
        /\ ~racy
        /\ proc[p].op = "load"
        /\ proc[p].pc = "error"
        /\ proc[p].raised = <<"RuntimeError">>
        /\ proc[p].obj = <<>>
        /\ last_writer = q
        /\ Len(file.bytes) > 1
        /\ Len(file.bytes) < file.written

\* C15 (as claimed): when every save has ended, the file holds what
\* torch.save writes for the object of the save that wrote last.
C15_LastWriterWins ==
    \A p \in Procs : SavedLast(p) => file.bytes = TorchSave(proc[p].obj[1])

\* C15 (amended): when saves do not overlap, the file holds, after each,
\* what torch.save writes for its object and nothing of what was there
\* before: cell 11's checkpoint replaces cell 7's state dict.
C15_LastSequentialWriterWins ==
    \A p \in Procs : (SavedLast(p) /\ ~racy) => file.bytes = TorchSave(proc[p].obj[1])

\* C15 witness: a kernel has run cell 7 and then cell 11, and the file holds
\* the checkpoint dictionary.
C15_Witness ==
    \E p \in Procs :
        /\ SavedLast(p)
        /\ ~racy
        /\ proc[p].before = TorchSave(StateDict(proc[p].model[1]))
        /\ IsCheckpointDict(proc[p].obj[1])
        /\ TorchLoad(file) = <<"ok", Checkpoint(proc[p].model[1])>>

C17_Step ==
    \A p \in Procs :
        /\ (proc[p].pc = "error") =>
              /\ proc[p].raised # <<>>
              /\ proc[p].result = <<>>
              /\ proc'[p] = proc[p] \/ proc'[p].ops = proc[p].ops + 1
              /\ (file' # file /\ last_writer' = p) => proc'[p].ops = proc[p].ops + 1
        /\ (proc[p].pc # "error" /\ proc'[p].pc = "error") =>
              /\ proc'[p].raised # <<>>
              /\ proc'[p].model = proc[p].model
              /\ file' = file
              /\ completed' = completed

\* C17: a save or load that ends with an exception has raised it to the
\* cell, has returned nothing, and the step that raises writes nothing and
\* binds nothing; after it the kernel's call takes no further step, the next
\* thing the kernel does is a new cell.
C17_ErrorsAreTerminal == [][C17_Step]_vars

\* C17 witness: load_checkpoint has failed with KeyError on the state dict
\* cell 7 saved, and `model` is still the network the kernel built.
C17_Witness ==
    \E p \in Procs :
        /\ proc[p].op = "load"
        /\ proc[p].pc = "error"
        /\ proc[p].raised = <<"KeyError">>
        /\ proc[p].result = <<>>
        /\ proc[p].obj = <<StateDict(proc[p].model[1])>>

\* the networks the kernel holds or has saved
NetworksInState ==
    {n[1] : n \in {n \in {model, saved, trained, call.net} : n # <<>>}}

\* the shape the claim gives each parameter of a network of input size
\* input_size, output size output_size and hidden sizes hidden
ClaimedShape(input_size, output_size, hidden, key) ==
    LET last == hidden[Len(hidden)]
        Width(i) == IF i = 1 THEN input_size ELSE hidden[i - 1]
    IN  IF key = "output.weight" THEN <<output_size, last>>
        ELSE IF key = "output.bias" THEN <<output_size>>
        ELSE LET i == CHOOSE i \in DOMAIN hidden :
                        key \in {"hidden_layers." \o ToString(i - 1) \o ".weight",
                                 "hidden_layers." \o ToString(i - 1) \o ".bias"}
             IN  IF key = "hidden_layers." \o ToString(i - 1) \o ".weight"
                 THEN <<hidden[i], Width(i)>> ELSE <<hidden[i]>>

ClaimedKeySet(hidden) ==
    {"output.weight", "output.bias"}
    \cup {"hidden_layers." \o ToString(i - 1) \o ".weight" : i \in DOMAIN hidden}
    \cup {"hidden_layers." \o ToString(i - 1) \o ".bias" : i \in DOMAIN hidden}

SameDescriptor(m1, m2) ==
    /\ InputSize(m1) = InputSize(m2)
    /\ OutputSize(m1) = OutputSize(m2)
    /\ HiddenSizes(m1) = HiddenSizes(m2)

\* C18: every network has one weight and one bias for each hidden layer and
\* for the output layer, hidden layer i of shapes (h_i, h_(i-1)) and (h_i),
\* with the input size for h_(-1), the output layer of shapes
\* (output_size, h_last) and (output_size); each layer's input width is the
\* output width of the layer before; two networks of equal input size, output
\* size and hidden sizes have the same names and shapes; and the networks of
\* hidden sizes [512, 256, 128] and [400, 200, 100] have the shapes the
\* notebook's size-mismatch error shows.
C18_DescriptorDeterminesShapes ==
    /\ \A m \in NetworksInState :
          /\ KeySet(m.params) = ClaimedKeySet(HiddenSizes(m))
          /\ Len(m.params) = 2 * Len(m.hidden_layers) + 2
          /\ \A i \in DOMAIN m.params :
                m.params[i][2].shape
                  = ClaimedShape(InputSize(m), OutputSize(m), HiddenSizes(m), m.params[i][1])
          /\ \A i \in DOMAIN m.hidden_layers :
                i > 1 => m.hidden_layers[i].in_features = m.hidden_layers[i - 1].out_features
          /\ m.output.in_features = m.hidden_layers[Len(m.hidden_layers)].out_features
          /\ (InputSize(m) = 784 /\ OutputSize(m) = 10) =>
                \A k \in DOMAIN NotebookSizeMismatches :
                    LET line == NotebookSizeMismatches[k]
                    IN  /\ HiddenSizes(m) = <<512, 256, 128>>
                            => Get(m.params, line.key).shape = line.checkpoint_shape
                        /\ HiddenSizes(m) = <<400, 200, 100>>
                            => Get(m.params, line.key).shape = line.model_shape
    /\ \A m1, m2 \in NetworksInState :
          SameDescriptor(m1, m2) => Shapes(m1.params) = Shapes(m2.params)

\* C18 witness: cell 10 has built the 400/200/100 network next to the
\* trained 512/256/128 one, whose state dict cell 8 loaded.
C18_Witness ==
    /\ cell = 10
    /\ HiddenSizes(model[1]) = <<400, 200, 100>>
    /\ HiddenSizes(trained[1]) = <<512, 256, 128>>
    /\ Get(model[1].params, "hidden_layers.1.weight").shape = <<200, 400>>
    /\ Get(trained[1].params, "hidden_layers.1.weight").shape = <<256, 512>>

\* the keys the notebook prints before the save and after the load
NotebookKeys ==
    <<"hidden_layers.0.weight", "hidden_layers.0.bias", "hidden_layers.1.weight",
      "hidden_layers.1.bias", "hidden_layers.2.weight", "hidden_layers.2.bias",
      "output.weight", "output.bias">>

\* the order the claim gives the keys of a network of n hidden layers
ClaimedKeys(n) ==
    [k \in 1..(2 * n + 2) |->
        IF k = 2 * n + 1 THEN "output.weight"
        ELSE IF k = 2 * n + 2 THEN "output.bias"
        ELSE "hidden_layers." \o ToString((k - 1) \div 2)
             \o (IF k % 2 = 1 THEN ".weight" ELSE ".bias")]

\* the state dict in an object torch.load returned
LoadedStateDict(obj) == IF IsCheckpointDict(obj) THEN Get(obj, "state_dict") ELSE obj

\* C19: the keys of a network's state dict are, in this order, weight and
\* bias of hidden layer 0, of hidden layer 1, ..., then output.weight and
\* output.bias (for three hidden layers the list the notebook prints), and
\* the state dict read back from 'checkpoint.pth' has its keys in the order
\* the saved network's state dict had them.
C19_KeyOrder ==
    /\ \A m \in NetworksInState :
          /\ Keys(StateDict(m)) = ClaimedKeys(Len(m.hidden_layers))
          /\ Len(m.hidden_layers) = 3 => Keys(StateDict(m)) = NotebookKeys
    /\ state_dict # <<>> =>
          Keys(LoadedStateDict(state_dict[1]))
            = ClaimedKeys((Len(LoadedStateDict(state_dict[1])) - 2) \div 2)
    /\ (saved # <<>> /\ TorchLoad(file)[1] = "ok") =>
          Keys(Get(FileObject, "state_dict")) = Keys(StateDict(saved[1]))
    /\ cell \in {7, 8, 9} =>
          Keys(LoadedStateDict(FileObject)) = Keys(StateDict(trained[1]))
    /\ cell \in {8, 9} =>
          Keys(state_dict[1]) = Keys(StateDict(trained[1]))

\* C19 witness: in the notebook's run cell 8 has read back the state dict
\* cell 7 saved, its keys in the order printed before the save.
C19_Witness ==
    /\ cell = 8
    /\ Keys(state_dict[1]) = NotebookKeys
    /\ Keys(StateDict(model[1])) = NotebookKeys
    /\ state_dict[1] = StateDict(model[1])

\* the hidden-layer sequence of m has an element without an output width
HasUnknownLayer(m) ==
    \E i \in DOMAIN m.hidden_layers : ~HasOutFeatures(m.hidden_layers[i])

C20_Step ==
    (model # <<>> /\ HasUnknownLayer(model[1])) =>
        /\ Cell11 =>
              /\ raised' = Exception("AttributeError", <<>>)
              /\ file' = file
              /\ saved' = saved
              /\ model' = model
        /\ (file' # file) => ~IsCheckpointDict(TorchLoad(file')[2])

\* C20: when model.hidden_layers holds an element without out_features, the
\* save cell (cell 11) ends with AttributeError and leaves 'checkpoint.pth'
\* as it was: no checkpoint of that network is ever written.
C20_UnknownLayerFails == [][C20_Step]_vars

\* C20 witness: cell 11 has failed with AttributeError on a network with
\* such an element, and the file is still the state dict cell 7 wrote.
C20_Witness ==
    /\ model # <<>>
    /\ HasUnknownLayer(model[1])
    /\ raised = Exception("AttributeError", <<>>)
    /\ file.exists
    /\ FileObject = StateDict(model[1])

----------------------------------------------------------------------------
\* C25: whenever load_checkpoint has ended on the file cell 11 wrote from a
\* network M, it has either raised an error and returned nothing, or
\* returned a network whose parameters have M's names, shapes and values;
\* this holds as well when M's input size is not 784 or its output size
\* is not 10.
C25_LoadedParamsAreTheSaved ==
    (LoadCheckpointEnded /\ saved # <<>>) =>
        \/ call.pc = "ERROR" /\ raised # <<>>
        \/ /\ call.pc = "ASSIGNED"
           /\ raised = <<>>
           /\ model = call.net
           /\ model[1].params = saved[1].params

\* load_checkpoint has ended on the checkpoint of a network whose input
\* size is not 784 and whose output size is not 10
C25_Witness ==
    /\ LoadCheckpointEnded
    /\ saved # <<>>
    /\ InputSize(saved[1]) # CheckpointInputSize
    /\ OutputSize(saved[1]) # CheckpointOutputSize
    /\ call.net # <<>>
    /\ call.i > Len(call.net[1].params)

----------------------------------------------------------------------------
\* every parameter of m has a gradient / has none
AllGrads(m) == \A i \in DOMAIN m.grads : m.grads[i] # <<>>
NoGrads(m) == \A i \in DOMAIN m.grads : m.grads[i] = <<>>

\* the statements of the training loop's body, and of the whole loop
InBody == pc \in {"zero_grad", "forward", "criterion", "backward", "step", "running_loss"}
InLoop == InBody \/ pc \in {"for_e", "for_batch", "else"}

\* C21: in the training loop the batch that was drawn gets zero_grad, then
\* the forward pass, then the loss, then the backward pass, then the
\* optimizer step: at the forward pass the gradients have just been cleared,
\* at the backward pass the output and the loss are those of this batch and
\* no backward pass has run since the zero_grad, at the step exactly one has;
\* and every batch drawn so far has had its one step.
C21_BatchOrder ==
    /\ pc = "zero_grad" =>
          steps = e * trainloader[1].len + (trainloader[1].len - Cardinality(it)) - 1
    /\ pc = "forward" => since_zero = 0 /\ NoGrads(model[1])
    /\ pc = "criterion" =>
          since_zero = 0 /\ NoGrads(model[1]) /\ out[1].batch = images[1]
    /\ pc = "backward" =>
          /\ since_zero = 0
          /\ NoGrads(model[1])
          /\ out[1].batch = images[1]
          /\ loss[1].batch = images[1]
    /\ pc = "step" =>
          /\ since_zero = 1
          /\ AllGrads(model[1])
          /\ loss[1].batch = images[1]
          /\ steps = e * trainloader[1].len + (trainloader[1].len - Cardinality(it)) - 1
    /\ pc \in {"running_loss", "for_batch", "else"} =>
          steps = e * trainloader[1].len + (trainloader[1].len - Cardinality(it))
    /\ pc = "running_loss" => since_zero = 1

\* the optimizer is about to step for the last batch of the second pass
C21_Witness ==
    /\ pc = "step"
    /\ e = 1
    /\ it = {}
    /\ trainloader[1].len = MaxBatches

----------------------------------------------------------------------------
\* a training pass has run its backward pass and the optimizer step is next:
\* in the loop, or cell 15 has ended and cell 16 is the next cell
StepIsNext ==
    \/ pc = "step"
    \/ pc = "idle" /\ cell = 15 /\ raised = <<>>

\* the gradient of the loss of the batch `images` alone, for parameter i
BatchGradient(i) == Gradient(model[1], images[1], i)

\* C22: when the optimizer step of a training pass is next, every gradient
\* is the gradient of the present batch's loss at the present weights and
\* nothing else, whatever earlier batches and the backward pass of cell 13
\* have left; and had the pass not cleared the gradients it found, its
\* backward pass would have added to them.
C22_GradientOfThisBatchAlone ==
    /\ StepIsNext =>
          \A i \in DOMAIN model[1].grads : model[1].grads[i] = <<BatchGradient(i)>>
    /\ (pc = "zero_grad" /\ AllGrads(model[1])) =>
          LET l == Criterion(model[1], Forward(model[1], images[1], grad_enabled))
          IN  \A i \in DOMAIN model[1].grads :
                 Backward(model[1], l).grads[i][1].data
                    = model[1].grads[i][1].data + BatchGradient(i).data

\* cell 15 has ended on the network that cell 13's backward pass had reached
\* before cell 14 made the optimizer
C22_Witness ==
    /\ pc = "idle"
    /\ cell = 15
    /\ raised = <<>>
    /\ reached = 2

----------------------------------------------------------------------------
\* C23: while no backward pass has reached the parameters of the network
\* `model` is bound to, every .grad is None, also once logits and loss have
\* been computed from it; a gradient that is there has the shape of its
\* parameter; and when the backward pass of cell 13 has run every parameter
\* has one: the cell prints None before the pass and a tensor after it.
\* The same goes for the tensor x: x.grad is None, and printed as None by
\* cell 10, until z.backward() of cell 11, and then it is x / 2, of the
\* shape of x.
C23_GradNoneUntilBackward ==
    /\ x # <<>> =>
        /\ cell < 11 => x[1].grad = <<>>
        /\ (cell = 10 /\ raised = <<>>) => stdout = << <<>> >>
        /\ (cell = 11 /\ raised = <<>>) =>
              /\ x[1].grad # <<>>
              /\ x[1].grad[1].shape = x[1].tensor.shape
              /\ stdout = <<x[1].grad, <<HalfOf(x[1].tensor)>> >>
              /\ stdout[1] = stdout[2]
    /\ model # <<>> =>
        /\ reached = 0 => NoGrads(model[1])
        /\ (loss # <<>> /\ cell \in {2, 5, 12}) =>
              logits # <<>> /\ raised = <<>> /\ reached = 0 /\ NoGrads(model[1])
        /\ \A i \in DOMAIN model[1].grads :
              model[1].grads[i] # <<>> =>
                 model[1].grads[i][1].shape = model[1].params[i][2].shape
        /\ (cell = 13 /\ raised = <<>>) =>
              /\ reached = 1
              /\ AllGrads(model[1])
              /\ Len(stdout) = 2
              /\ stdout[1] = <<>>
              /\ stdout[2] # <<>>
              /\ stdout[2][1].shape = model[1].params[1][2].shape

\* cell 13 has run its backward pass on the loss of cell 12, in a kernel in
\* which cell 11 had run z.backward()
C23_Witness ==
    /\ cell = 13
    /\ raised = <<>>
    /\ reached = 1
    /\ stdout[1] = <<>>
    /\ stdout[2] # <<>>
    /\ x # <<>>
    /\ x[1].grad # <<>>

----------------------------------------------------------------------------
\* the statements under `with torch.no_grad():`
InNoGradBlock == pc \in {"no_grad_body", "no_grad_exit"}

\* C24: the gradient mode is off exactly while the kernel is in the block
\* under `with torch.no_grad()`; the logits computed in the block do not
\* require gradients; leaving the block, at its end or by an exception,
\* puts the mode back to what it was when the block was entered; and no
\* step in the block changes a parameter or a gradient of the model.
C24_Step ==
    /\ grad_enabled = ~InNoGradBlock
    /\ pc = "with" =>
          /\ no_grad'[1].prev = grad_enabled
          /\ ~grad_enabled'
          /\ model' = model
    /\ InNoGradBlock =>
          /\ model' = model
          /\ pc' = "no_grad_exit" => logits' # <<>> /\ ~logits'[1].requires_grad
          /\ pc' = "idle" => grad_enabled' = no_grad[1].prev /\ no_grad' = <<>>
          /\ (pc = "no_grad_body" /\ pc' = "idle") => raised' # <<>> /\ logits' = logits
    /\ grad_enabled' = ~(pc' \in {"no_grad_body", "no_grad_exit"})

C24_NoGradIsScoped == [][C24_Step]_vars

\* the inference of cell 21 has run on the network the loop has trained:
\* the logits do not require gradients and the mode is on again
C24_Witness ==
    /\ pc = "idle"
    /\ cell = 21
    /\ raised = <<>>
    /\ steps = Epochs * MaxBatches
    /\ logits # <<>>
    /\ ~logits[1].requires_grad
    /\ grad_enabled

----------------------------------------------------------------------------
\* the training loop cell has ended
LoopEnded == pc = "idle" /\ cell = 20 /\ optim

\* C26: once the training loop cell has reached its loop it ends, whatever
\* the number of batches of the loader, and it has then made epochs times
\* that number of optimizer steps; it never makes more.
C26_LoopTerminates ==
    /\ [](steps <= Epochs * trainloader[1].len)
    /\ [](LoopEnded => steps = Epochs * trainloader[1].len)
    /\ (pc = "for_e") ~> LoopEnded

\* the loop has ended after five passes over a loader of MaxBatches batches
C26_Witness ==
    /\ LoopEnded
    /\ trainloader[1].len = MaxBatches
    /\ e = Epochs - 1
    /\ steps = Epochs * MaxBatches
    /\ raised = <<>>

----------------------------------------------------------------------------
\* the sum of a sequence of numbers
RECURSIVE SumOf(_)
SumOf(s) == IF s = <<>> THEN 0 ELSE s[1] + SumOf(Tail(s))

\* the training loop cell is running or has run its loop
LoopCell == cell = 20 /\ optim

\* C27: in the training loop cell, pass number e (from 0) starts with e
\* losses reported and running_loss 0, running_loss is the sum of the
\* losses of the batches of this pass so far, the report is made when every
\* batch of the pass has had its step and before the next pass draws one,
\* and it is the sum of the losses of this pass over the number of batches;
\* a loop that has ended without an error has reported 5 times, once for
\* each pass.
C27_LossReportedOncePerEpoch ==
    LoopCell =>
        /\ (InBody \/ pc \in {"for_batch", "else"}) =>
              /\ Len(stdout) = e
              /\ running_loss = SumOf(losses)
              /\ Len(losses) = trainloader[1].len - Cardinality(it)
                                  - (IF InBody THEN 1 ELSE 0)
        /\ pc = "else" => it = {} /\ Len(losses) = trainloader[1].len
        /\ (pc = "for_e" \/ (pc = "idle" /\ raised = <<>>)) =>
              /\ Len(stdout) = e + 1
              /\ e >= 0 =>
                    /\ it = {}
                    /\ Len(losses) = trainloader[1].len
                    /\ stdout[e + 1] = [num |-> SumOf(losses), den |-> trainloader[1].len]
        /\ (pc = "idle" /\ raised = <<>>) => Len(stdout) = Epochs

\* the second pass over a loader of MaxBatches batches has just been reported
C27_Witness ==
    /\ LoopCell
    /\ pc = "for_e"
    /\ e = 1
    /\ trainloader[1].len = MaxBatches
    /\ Len(stdout) = 2
    /\ stdout[2].num = SumOf(losses)
    /\ stdout[1] # stdout[2]

----------------------------------------------------------------------------
\* the weights / the gradients of the network `model` is bound to
Weights(m) == [i \in DOMAIN m.params |-> m.params[i][2]]

\* the step is the optimizer's: W' = W - lr * grad for every parameter, and
\* the gradients are the same after it
IsSGDUpdate(m, n, lr) ==
    /\ n.grads = m.grads
    /\ \A i \in DOMAIN m.params :
          /\ n.params[i][1] = m.params[i][1]
          /\ n.params[i][2].shape = m.params[i][2].shape
          /\ n.params[i][2].data =
                IF m.grads[i] = <<>> THEN m.params[i][2].data
                ELSE m.params[i][2].data - lr * m.grads[i][1].data

\* C28: in a training pass optimizer.zero_grad(), the forward pass, the loss
\* and the backward pass leave every weight as it is (zero_grad and the
\* backward pass change gradients, the forward pass and the loss change
\* neither); optimizer.step() leaves every gradient as it is and replaces
\* each weight W by W - lr * grad.  This holds for the statements of the
\* loop, for cell 15 (zero_grad to backward) and for cell 16 (the step).
C28_Step ==
    /\ pc \in {"zero_grad", "forward", "criterion", "backward"} =>
          Weights(model'[1]) = Weights(model[1])
    /\ pc \in {"forward", "criterion"} => model' = model
    /\ pc = "zero_grad" => NoGrads(model'[1])
    /\ pc = "backward" => AllGrads(model'[1])
    /\ pc = "step" => IsSGDUpdate(model[1], model'[1], LrLoop)
    /\ (cell' = 15 /\ cell # 15 /\ model # <<>>) =>
          Weights(model'[1]) = Weights(model[1])
    /\ (cell' = 16 /\ cell # 16 /\ optimizer # <<>>) =>
          IsSGDUpdate(model[1], model'[1], LrCell14)

C28_FrameConditions == [][C28_Step]_vars

\* the loop's optimizer has just made its second step, and every weight is
\* away from the value it was initialised with
C28_Witness ==
    /\ pc = "running_loss"
    /\ steps = 2
    /\ AllGrads(model[1])
    /\ \A i \in DOMAIN model[1].params : model[1].params[i][2].data # rng - 1

====
